---------------------------- MODULE Spec2Model ----------------------------
(***************************************************************************)
(* Model of docs/script.js of NSAI-2025-Survey: the classification and     *)
(* aggregation pipeline of the report page (consolidation of the overview  *)
(* breakdown, the flow diagram, the per-category grouping of excluded      *)
(* papers, the criterion extractor and the category normalizers).          *)
(*                                                                         *)
(* Strings are TLA+ strings; the string methods the code uses (startsWith, *)
(* includes, replace, toLowerCase) are computed character by character.    *)
(* A JS object is a sequence of entries in insertion order, which is the   *)
(* order Object.entries enumerates (no key of the model is integer-like).  *)
(***************************************************************************)
EXTENDS Integers, Sequences, FiniteSets, TLC

VARIABLES
  pc,                 \* position of the page script
  overviewData,       \* data/screening_overview_enriched.json
  excluded,           \* data/exclude.json: the excluded article records
  finalExcluded,      \* data/final_exclude.json
  sankey,             \* sankeyData = { nodes, links } of createSankeyDiagram
  overviewTable,      \* rows / labels / counts of pie chart 1 and its table
  categorizedExcluded,\* result of categorizeExcludedPapersFromConsolidatedData
  categories,         \* result of categorizeExcludedPapers
  extracted,          \* per record: result of extractExclusionCriteria
  finalCategories,    \* result of categorizeFinalExcludedPapers
  console,            \* messages surfaced with console.error / alert
  rawLabel,           \* a raw label handed to the normalizers
  normalized,         \* what each normalizer returns for rawLabel
  renormalized,       \* what each normalizer returns for its own result
  includeData,        \* the records handed to enrichPapersWithClusterLinks
  loadedIncludeData,  \* history: those records as they were loaded
  clusterLinksData,   \* the cross-reference data: [present, sheets]
  enrichedIncludeData,\* the array enrichPapersWithClusterLinks returns
  loads,              \* per document of init: the state of its loadJSON promise
  sections,           \* the sections of the page populated so far, in order
  searchInput,        \* value of the input #excluded-search
  excList             \* the element #excluded-papers-list: its category blocks

vars == <<pc, overviewData, excluded, finalExcluded, sankey, overviewTable,
          categorizedExcluded, categories, extracted, finalCategories, console,
          rawLabel, normalized, renormalized,
          includeData, loadedIncludeData, clusterLinksData, enrichedIncludeData,
          loads, sections, searchInput, excList>>

labelVars == <<rawLabel, normalized, renormalized>>

enrichVars ==
  <<includeData, loadedIncludeData, clusterLinksData, enrichedIncludeData>>

loadVars == <<loads, sections>>

listVars == <<searchInput, excList>>

NoClusterLinks == [present |-> FALSE, sheets |-> << >>]

\* init has not started any load
NoLoads == << >>

(***************************************************************************)
(* Bounds of the model.                                                    *)
(***************************************************************************)
MaxFree == 3             \* free rows of a breakdown
MaxCustomizations == 3   \* customizations of the single article of a run
MaxRecords == 2          \* excluded records of a run
MaxFinal == 2            \* final-excluded papers of a run

(***************************************************************************)
(* Generic helpers.                                                        *)
(***************************************************************************)
Range(s) == { s[i] : i \in DOMAIN s }

RECURSIVE SumCounts(_)
SumCounts(entries) ==
  IF entries = <<>> THEN 0 ELSE Head(entries).count + SumCounts(Tail(entries))

\* Array.prototype.slice(0, k)
Slice(s, k) == SubSeq(s, 1, IF Len(s) < k THEN Len(s) ELSE k)

\* index of the entry with key `reason`, 0 when the object has no such key
IndexOf(entries, reason) ==
  IF \E i \in DOMAIN entries : entries[i].reason = reason
  THEN CHOOSE i \in DOMAIN entries : entries[i].reason = reason
  ELSE 0

\* an insertion whose place among equal counts depends on the run
InsertByCount_TieByRun(sorted, e) ==
  LET before == IF pc = "lists"
                THEN { i \in DOMAIN sorted : sorted[i].count > e.count }
                ELSE { i \in DOMAIN sorted : sorted[i].count >= e.count }
      k == IF before = {} THEN 0
           ELSE CHOOSE i \in before : \A j \in before : j <= i
  IN  SubSeq(sorted, 1, k) \o <<e>> \o SubSeq(sorted, k + 1, Len(sorted))

\* Array.prototype.sort((a, b) => b[1].count - a[1].count): a stable sort
\* (ECMAScript 2019), written as an insertion sort: an entry is placed after
\* every entry whose count is greater than or equal to its own.
InsertByCount(sorted, e) ==
  LET before == { i \in DOMAIN sorted : sorted[i].count >= e.count }
      k == IF before = {} THEN 0
           ELSE CHOOSE i \in before : \A j \in before : j <= i
  IN  SubSeq(sorted, 1, k) \o <<e>> \o SubSeq(sorted, k + 1, Len(sorted))

RECURSIVE SortByCountDesc(_)
SortByCountDesc(entries) ==
  IF entries = <<>> THEN <<>>
  ELSE InsertByCount(SortByCountDesc(SubSeq(entries, 1, Len(entries) - 1)),
                     entries[Len(entries)])

(***************************************************************************)
(* Consolidation of individual_criteria_counts.  The code repeats the     *)
(* mapping in each view; each copy is modelled from its own lines.         *)
(***************************************************************************)
\* populateOverview, the if-chain that sets consolidatedReason
consolidatedReason_populateOverview(reason) ==
  IF reason = "Survey/review paper" \/ reason = "Review paper"
       \/ reason = "Background article"
    THEN "review/background article"
  ELSE IF reason = "Other/Unclear" \/ reason = "__EXR__wrong outcome"
       \/ reason = "__EXR__engl" \/ reason = "__EXR__v"
    THEN "No codebase/implementation"
  ELSE IF reason = "__EXR__no-fulltext" THEN "no-fulltext"
  ELSE IF reason = "__EXR__not-in-english" \/ reason = "__EXR__foreign language"
    THEN "not-in-english"
  ELSE reason

\* the flow diagram's copy of the mapping, had it been left without the
\* 'Background article' case
consolidatedReason_createSankeyDiagram_Stale(reason) ==
  IF reason = "Survey/review paper" \/ reason = "Review paper"
    THEN "review/background article"
  ELSE IF reason = "Other/Unclear" \/ reason = "__EXR__wrong outcome"
       \/ reason = "__EXR__engl" \/ reason = "__EXR__v"
    THEN "No codebase/implementation"
  ELSE IF reason = "__EXR__no-fulltext" THEN "no-fulltext"
  ELSE IF reason = "__EXR__not-in-english" \/ reason = "__EXR__foreign language"
    THEN "not-in-english"
  ELSE reason

\* createSankeyDiagram, the if-chain that sets consolidatedReason
consolidatedReason_createSankeyDiagram(reason) ==
  IF reason = "Survey/review paper" \/ reason = "Review paper"
       \/ reason = "Background article"
    THEN "review/background article"
  ELSE IF reason = "Other/Unclear" \/ reason = "__EXR__wrong outcome"
       \/ reason = "__EXR__engl" \/ reason = "__EXR__v"
    THEN "No codebase/implementation"
  ELSE IF reason = "__EXR__no-fulltext" THEN "no-fulltext"
  ELSE IF reason = "__EXR__not-in-english" \/ reason = "__EXR__foreign language"
    THEN "not-in-english"
  ELSE reason

\* categorizeExcludedPapersFromConsolidatedData, the same if-chain
consolidatedReason_fromConsolidatedData(reason) ==
  IF reason = "Survey/review paper" \/ reason = "Review paper"
       \/ reason = "Background article"
    THEN "review/background article"
  ELSE IF reason = "Other/Unclear" \/ reason = "__EXR__wrong outcome"
       \/ reason = "__EXR__engl" \/ reason = "__EXR__v"
    THEN "No codebase/implementation"
  ELSE IF reason = "__EXR__no-fulltext" THEN "no-fulltext"
  ELSE IF reason = "__EXR__not-in-english" \/ reason = "__EXR__foreign language"
    THEN "not-in-english"
  ELSE reason

\* One step of the forEach over Object.entries(breakdown): create the
\* consolidated entry { count: 0, percentage: 0 } when it is missing, then add
\* the raw entry's count and percentage to it.
\* a merge that keeps the last raw category's numbers instead of adding them
AddEntry_Overwriting(acc, cr, info) ==
  LET i == IndexOf(acc, cr)
  IN  IF i = 0
      THEN Append(acc, [reason |-> cr, count |-> info.count,
                        percentage |-> info.percentage])
      ELSE [acc EXCEPT ![i] = [reason |-> cr, count |-> info.count,
                               percentage |-> info.percentage]]

AddEntry(acc, cr, info) ==
  LET i == IndexOf(acc, cr)
  IN  IF i = 0
      THEN Append(acc, [reason |-> cr, count |-> 0 + info.count,
                        percentage |-> 0 + info.percentage])
      ELSE [acc EXCEPT ![i] = [reason |-> cr,
                               count |-> @.count + info.count,
                               percentage |-> @.percentage + info.percentage]]

\* populateOverview: consolidatedData after the forEach over the breakdown
RECURSIVE consolidatedData_populateOverview(_)
consolidatedData_populateOverview(breakdown) ==
  IF breakdown = <<>> THEN <<>>
  ELSE LET last == breakdown[Len(breakdown)]
       IN  AddEntry(consolidatedData_populateOverview(
                      SubSeq(breakdown, 1, Len(breakdown) - 1)),
                    consolidatedReason_populateOverview(last.reason), last)

\* createSankeyDiagram: consolidatedBreakdown after the forEach
RECURSIVE consolidatedBreakdown_createSankeyDiagram(_)
consolidatedBreakdown_createSankeyDiagram(breakdown) ==
  IF breakdown = <<>> THEN <<>>
  ELSE LET last == breakdown[Len(breakdown)]
       IN  AddEntry(consolidatedBreakdown_createSankeyDiagram(
                      SubSeq(breakdown, 1, Len(breakdown) - 1)),
                    consolidatedReason_createSankeyDiagram(last.reason), last)

\* categorizeExcludedPapersFromConsolidatedData: consolidatedData after the forEach
RECURSIVE consolidatedData_fromConsolidatedData(_)
consolidatedData_fromConsolidatedData(breakdown) ==
  IF breakdown = <<>> THEN <<>>
  ELSE LET last == breakdown[Len(breakdown)]
       IN  AddEntry(consolidatedData_fromConsolidatedData(
                      SubSeq(breakdown, 1, Len(breakdown) - 1)),
                    consolidatedReason_fromConsolidatedData(last.reason), last)

(***************************************************************************)
(* createSankeyDiagram: the nodes and links handed to the renderer.  A     *)
(* node is [id, name, value]: the label without its number, and the number *)
(* the label shows.                                                        *)
(***************************************************************************)
TopN == 8

funnelBreakdown_createSankeyDiagram ==
  << [name |-> "Fully Reproduced", count |-> 48],
     [name |-> "Partially Reproduced (above threshold)", count |-> 37],
     [name |-> "Has All Artifacts but Failed", count |-> 7],
     [name |-> "Missing Code", count |-> 42],
     [name |-> "Not Attempted - No Fulltext", count |-> 6],
     [name |-> "Not Attempted - Off Topic", count |-> 30],
     [name |-> "Not Attempted - Not a Research Article", count |-> 1],
     [name |-> "Not Attempted - Background Article", count |-> 3],
     [name |-> "No quantitative evaluation", count |-> 21],
     [name |-> "Missing Some Artifacts (not code, e.g. data, model, etc.)",
      count |-> 321] >>

\* const excluded = total_count || excluded_out_of_scope: a total_count of 0 is
\* falsy, `excluded` is then the object and every subtraction from it is NaN.
excludedIsNumber(data) ==
  data.rayyan_screening.excluded_out_of_scope.total_count # 0

sortedEntries_createSankeyDiagram(data) ==
  SortByCountDesc(consolidatedBreakdown_createSankeyDiagram(
    data.rayyan_screening.excluded_out_of_scope.breakdown.individual_criteria_counts))

topExclusionReasons(data) == Slice(sortedEntries_createSankeyDiagram(data), TopN)

accountedFor(data) == SumCounts(topExclusionReasons(data))

\* a remainder that is written down instead of computed
remainingExcluded_Hardcoded(data) == 2

\* remainingExcluded = excluded - accountedFor (meaningful when excluded is a number)
remainingExcluded(data) ==
  data.rayyan_screening.excluded_out_of_scope.total_count - accountedFor(data)

\* if (remainingExcluded > 0): false for NaN
emitsOtherReasons(data) == excludedIsNumber(data) /\ remainingExcluded(data) > 0

createSankeyDiagram(data) ==
  LET totalHits  == data.search_and_deduplication.total_results_retrieved
      afterDedup == data.search_and_deduplication.after_dedup_rayyan
      included   == data.rayyan_screening.included_within_scope
      duplicatesRemoved == totalHits - afterDedup
      top    == topExclusionReasons(data)
      funnel == funnelBreakdown_createSankeyDiagram
      nodes0 == << [id |-> 0, name |-> "Total Hits", value |-> totalHits],
                   [id |-> 1, name |-> "Duplicates Removed", value |-> duplicatesRemoved],
                   [id |-> 2, name |-> "After Dedup", value |-> afterDedup],
                   [id |-> 3, name |-> "In-Scope", value |-> included] >>
      links0 == << [source |-> 0, target |-> 1, value |-> duplicatesRemoved],
                   [source |-> 0, target |-> 2, value |-> afterDedup],
                   [source |-> 2, target |-> 3, value |-> included] >>
      nodes1 == [i \in 1..Len(top) |->
                   [id |-> 3 + i, name |-> top[i].reason, value |-> top[i].count]]
      links1 == [i \in 1..Len(top) |->
                   [source |-> 2, target |-> 3 + i, value |-> top[i].count]]
      other  == emitsOtherReasons(data)
      nodes2 == IF other
                THEN << [id |-> 4 + Len(top), name |-> "Other reasons",
                         value |-> remainingExcluded(data)] >>
                ELSE << >>
      links2 == IF other
                THEN << [source |-> 2, target |-> 4 + Len(top),
                         value |-> remainingExcluded(data)] >>
                ELSE << >>
      funnelStartNodeId == 4 + Len(top) + Len(nodes2)
      nodes3 == [i \in 1..Len(funnel) |->
                   [id |-> funnelStartNodeId + i - 1, name |-> funnel[i].name,
                    value |-> funnel[i].count]]
      links3 == [i \in 1..Len(funnel) |->
                   [source |-> 3, target |-> funnelStartNodeId + i - 1,
                    value |-> funnel[i].count]]
  IN  [nodes |-> nodes0 \o nodes1 \o nodes2 \o nodes3,
       links |-> links0 \o links1 \o links2 \o links3]

(***************************************************************************)
(* String methods, character by character.                                 *)
(***************************************************************************)
\* String.prototype.startsWith
StartsWith(s, p) == Len(s) >= Len(p) /\ SubSeq(s, 1, Len(p)) = p

\* String.prototype.includes
Includes(s, p) ==
  \E i \in 1..(Len(s) - Len(p) + 1) : SubSeq(s, i, i + Len(p) - 1) = p

\* key.replace(/"/g, ''): every quote character removed, wherever it stands
RECURSIVE RemoveQuotes(_)
RemoveQuotes(s) ==
  IF s = "" THEN ""
  ELSE IF Head(s) = "\"" THEN RemoveQuotes(Tail(s))
  ELSE Head(s) \o RemoveQuotes(Tail(s))

\* String.prototype.toLowerCase
LowerChar(c) ==
  CASE c = "A" -> "a" [] c = "B" -> "b" [] c = "C" -> "c" [] c = "D" -> "d"
    [] c = "E" -> "e" [] c = "F" -> "f" [] c = "G" -> "g" [] c = "H" -> "h"
    [] c = "I" -> "i" [] c = "J" -> "j" [] c = "K" -> "k" [] c = "L" -> "l"
    [] c = "M" -> "m" [] c = "N" -> "n" [] c = "O" -> "o" [] c = "P" -> "p"
    [] c = "Q" -> "q" [] c = "R" -> "r" [] c = "S" -> "s" [] c = "T" -> "t"
    [] c = "U" -> "u" [] c = "V" -> "v" [] c = "W" -> "w" [] c = "X" -> "x"
    [] c = "Y" -> "y" [] c = "Z" -> "z" [] OTHER -> c

RECURSIVE ToLowerCase(_)
ToLowerCase(s) ==
  IF s = "" THEN "" ELSE LowerChar(Head(s)) \o ToLowerCase(Tail(s))

(***************************************************************************)
(* extractExclusionCriteria and getReadableExclusionReason.                *)
(* An article is [article_id, hasCustomizations, customizations]; a        *)
(* customization is [key, value] and a value is [type, text], so that the  *)
(* string "1" and the number 1 differ as they do under ===.                *)
(***************************************************************************)
StringValue(t) == [type |-> "string", text |-> t]
NumberValue(t) == [type |-> "number", text |-> t]

\* the condition of the if inside the forEach
isSetExclusionFlag(customization) ==
  /\ StartsWith(customization.key, "\"__EXR__")
  /\ customization.value = StringValue("1")

\* the extractor, had it collected the criteria into a set
RECURSIVE criteriaOf_Deduplicated(_)
criteriaOf_Deduplicated(customizations) ==
  IF customizations = <<>> THEN <<>>
  ELSE LET rest == criteriaOf_Deduplicated(
                     SubSeq(customizations, 1, Len(customizations) - 1))
           last == customizations[Len(customizations)]
       IN  IF isSetExclusionFlag(last)
              /\ \A k \in DOMAIN rest : rest[k] # RemoveQuotes(last.key)
           THEN Append(rest, RemoveQuotes(last.key))
           ELSE rest

RECURSIVE criteriaOf(_)
criteriaOf(customizations) ==
  IF customizations = <<>> THEN <<>>
  ELSE LET rest == criteriaOf(SubSeq(customizations, 1, Len(customizations) - 1))
           last == customizations[Len(customizations)]
       IN  IF isSetExclusionFlag(last)
           THEN Append(rest, RemoveQuotes(last.key))
           ELSE rest

extractExclusionCriteria(article) ==
  IF article.hasCustomizations THEN criteriaOf(article.customizations) ELSE <<>>

\* a lookup that also has an entry under a label it returns
getReadableExclusionReason_BareKeys(criterion) ==
  CASE criterion = "__EXR__no-fulltext" -> "no-fulltext"
    [] criterion = "no-fulltext"        -> "No fulltext"
    [] criterion = "__EXR__survey"      -> "review/background article"
    [] OTHER                            -> criterion

\* reasonMap[criterion] || criterion
getReadableExclusionReason(criterion) ==
  CASE criterion = "__EXR__off-topic"          -> "Off-topic/Not neuro-symbolic"
    [] criterion = "__EXR__no-codebase"        -> "No codebase/implementation"
    [] criterion = "__EXR__survey"             -> "review/background article"
    [] criterion = "__EXR__background article" -> "review/background article"
    [] criterion = "__EXR__not-research"       -> "Not research paper"
    [] criterion = "__EXR__no-eval"            -> "No evaluation"
    [] criterion = "__EXR__duplicate"          -> "Duplicate"
    [] criterion = "__EXR__review"             -> "review/background article"
    [] criterion = "__EXR__no-fulltext"        -> "no-fulltext"
    [] criterion = "__EXR__not-in-english"     -> "not-in-english"
    [] criterion = "__EXR__foreign language"   -> "not-in-english"
    [] criterion = "__EXR__c"                  -> "No codebase/implementation"
    [] criterion = "__EXR__wrong outcome"      -> "No codebase/implementation"
    [] criterion = "__EXR__engl"               -> "No codebase/implementation"
    [] criterion = "__EXR__v"                  -> "No codebase/implementation"
    [] OTHER                                   -> criterion

(***************************************************************************)
(* The per-category grouping of excluded papers.  The object `categories`  *)
(* (`paperBuckets`) is a sequence of [reason, papers] in insertion order.  *)
(***************************************************************************)
\* the grouping step without the test for a paper that is already listed
addToCategory_NoDuplicateTest(cats, readableReason, paper) ==
  LET i    == IndexOf(cats, readableReason)
      withKey == IF i = 0 THEN Append(cats, [reason |-> readableReason, papers |-> <<>>])
                 ELSE cats
      j    == IndexOf(withKey, readableReason)
  IN  [withKey EXCEPT ![j].papers = Append(@, paper)]

\* if (!categories[r]) categories[r] = [];
\* if (!categories[r].some(p => p.article_id === paper.article_id)) push(paper)
addToCategory(cats, readableReason, paper) ==
  LET i    == IndexOf(cats, readableReason)
      withKey == IF i = 0 THEN Append(cats, [reason |-> readableReason, papers |-> <<>>])
                 ELSE cats
      j    == IndexOf(withKey, readableReason)
  IN  IF \E k \in DOMAIN withKey[j].papers :
           withKey[j].papers[k].article_id = paper.article_id
      THEN withKey
      ELSE [withKey EXCEPT ![j].papers = Append(@, paper)]

\* the grouping, had it left papers without criteria out
addWithoutCriteria_Dropped(cats, paper) == cats

\* categories['No explicit criteria'].push(paper): no duplicate test here
addWithoutCriteria(cats, paper) ==
  LET i == IndexOf(cats, "No explicit criteria")
      withKey == IF i = 0
                 THEN Append(cats, [reason |-> "No explicit criteria", papers |-> <<>>])
                 ELSE cats
      j == IndexOf(withKey, "No explicit criteria")
  IN  [withKey EXCEPT ![j].papers = Append(@, paper)]

\* criteria.forEach(criterion => ...) for one paper
RECURSIVE addCriteria(_, _, _)
addCriteria(cats, criteria, paper) ==
  IF criteria = <<>> THEN cats
  ELSE addCriteria(addToCategory(cats, getReadableExclusionReason(Head(criteria)), paper),
                   Tail(criteria), paper)

\* the grouping, had it counted a paper in its first category only
groupPaper_FirstCategoryOnly(cats, paper) ==
  LET criteria == extractExclusionCriteria(paper)
  IN  IF Len(criteria) > 0 THEN addCriteria(cats, << Head(criteria) >>, paper)
      ELSE addWithoutCriteria(cats, paper)

\* the body of excluded.forEach(paper => ...)
groupPaper(cats, paper) ==
  LET criteria == extractExclusionCriteria(paper)
  IN  IF Len(criteria) > 0 THEN addCriteria(cats, criteria, paper)
      ELSE addWithoutCriteria(cats, paper)

RECURSIVE groupPapers(_, _)
groupPapers(cats, papers) ==
  IF papers = <<>> THEN cats
  ELSE groupPapers(groupPaper(cats, Head(papers)), Tail(papers))

\* Object.entries(categories).sort((a, b) => b[1].length - a[1].length), stable
InsertByLength(sorted, e) ==
  LET before == { i \in DOMAIN sorted : Len(sorted[i].papers) >= Len(e.papers) }
      k == IF before = {} THEN 0
           ELSE CHOOSE i \in before : \A j \in before : j <= i
  IN  SubSeq(sorted, 1, k) \o <<e>> \o SubSeq(sorted, k + 1, Len(sorted))

RECURSIVE SortByLengthDesc(_)
SortByLengthDesc(entries) ==
  IF entries = <<>> THEN <<>>
  ELSE InsertByLength(SortByLengthDesc(SubSeq(entries, 1, Len(entries) - 1)),
                      entries[Len(entries)])

categorizeExcludedPapers(papers) == SortByLengthDesc(groupPapers(<<>>, papers))

\* categorizeExcludedPapersFromConsolidatedData: paperBuckets
paperBuckets(papers) == groupPapers(<<>>, papers)

\* paperBuckets[reason] || []
bucketOf(buckets, reason) ==
  IF IndexOf(buckets, reason) = 0 THEN <<>>
  ELSE buckets[IndexOf(buckets, reason)].papers

sortedEntries_fromConsolidatedData(data) ==
  SortByCountDesc(consolidatedData_fromConsolidatedData(
    data.rayyan_screening.excluded_out_of_scope.breakdown.individual_criteria_counts))

categorizeExcludedPapersFromConsolidatedData(data, papers) ==
  LET sortedEntries == sortedEntries_fromConsolidatedData(data)
  IN  [i \in 1..Len(sortedEntries) |->
         [reason |-> sortedEntries[i].reason,
          count  |-> sortedEntries[i].count,
          papers |-> bucketOf(paperBuckets(papers), sortedEntries[i].reason)]]

(***************************************************************************)
(* categorizeFinalExcludedPapers and its normalizer.  A final-excluded     *)
(* paper is [article_id, reproduction_category, excel_data]: an absent     *)
(* reproduction_category is "" (as falsy as undefined), excel_data is a    *)
(* function from column names to answers, empty when the field is absent.  *)
(***************************************************************************)
\* return null
Null == "<null>"

\* the filter at the head of normalizeExclusionReasonForFinalExcluded
isReproducedReason(reasonLower) ==
  \/ Includes(reasonLower, "fully reproduced")
  \/ (Includes(reasonLower, "partially reproduced") /\ Includes(reasonLower, "above"))
  \/ (Includes(reasonLower, "partially reproduced") /\ Includes(reasonLower, "below"))

\* the if-chain of normalizeExclusionReasonForFinalExcluded below its filter
normalizationRules(reason) ==
  LET reasonLower == ToLowerCase(reason)
  IN  IF Includes(reasonLower, "missing some artifacts")
           \/ Includes(reasonLower, "missing artifacts")
        THEN "Missing Some Artifacts (not code, e.g. data, model, etc.)"
      ELSE IF Includes(reasonLower, "missing code") \/ Includes(reasonLower, "no code")
        THEN "Missing Code"
      ELSE IF Includes(reasonLower, "has all artifacts but failed")
           \/ Includes(reasonLower, "all artifacts but failed")
        THEN "Has All Artifacts but Failed"
      ELSE IF Includes(reasonLower, "not attempted") /\ Includes(reasonLower, "off topic")
        THEN "Not Attempted - Off Topic"
      ELSE IF Includes(reasonLower, "not attempted") /\ Includes(reasonLower, "background")
        THEN "Not Attempted - Background Article"
      ELSE IF Includes(reasonLower, "not attempted") /\ Includes(reasonLower, "no fulltext")
        THEN "Not Attempted - No Fulltext"
      ELSE IF Includes(reasonLower, "not attempted")
           /\ Includes(reasonLower, "not a research")
        THEN "Not Attempted - Not a Research Article"
      ELSE IF Includes(reasonLower, "no quantitative evaluation")
           \/ (Includes(reasonLower, "quantitative evaluation")
               /\ Includes(reasonLower, "no"))
        THEN "No quantitative evaluation"
      ELSE IF Includes(reasonLower, "off topic")
           \/ Includes(reasonLower, "not neuro-symbolic")
        THEN "Not Attempted - Off Topic"
      ELSE IF Includes(reasonLower, "background") \/ Includes(reasonLower, "review")
        THEN "Not Attempted - Background Article"
      ELSE IF Includes(reasonLower, "no fulltext") \/ Includes(reasonLower, "no full text")
        THEN "Not Attempted - No Fulltext"
      ELSE IF Includes(reasonLower, "not research")
           \/ Includes(reasonLower, "not a research")
        THEN "Not Attempted - Not a Research Article"
      ELSE reason

\* the normalizer, had it come without the filter for reproduced papers
normalizeExclusionReasonForFinalExcluded_Unfiltered(reason) ==
  normalizationRules(reason)

\* the normalizer, had it returned the short artifact label of the generic one
normalizeExclusionReasonForFinalExcluded_ShortLabels(reason) ==
  IF isReproducedReason(ToLowerCase(reason)) THEN Null
  ELSE IF Includes(ToLowerCase(reason), "missing some artifacts")
    THEN "Missing Some Artifacts"
  ELSE normalizationRules(reason)

normalizeExclusionReasonForFinalExcluded(reason) ==
  IF isReproducedReason(ToLowerCase(reason)) THEN Null
  ELSE normalizationRules(reason)

\* normalizeExclusionReason: the generic normalizer (script.js defines it next
\* to the one above)
normalizeExclusionReason(reason) ==
  LET reasonLower == ToLowerCase(reason)
  IN  IF reason = "" \/ reason = "N/A" THEN "Excluded (reason not specified)"
      ELSE IF Includes(reasonLower, "missing code") \/ Includes(reasonLower, "no code")
        THEN "Missing Code"
      ELSE IF Includes(reasonLower, "missing artifact")
           \/ Includes(reasonLower, "missing some artifact")
           \/ Includes(reasonLower, "missing some artifacts")
        THEN "Missing Some Artifacts"
      ELSE IF Includes(reasonLower, "partial") /\ Includes(reasonLower, "below threshold")
        THEN "Partially Reproduced (Below Threshold)"
      ELSE IF Includes(reasonLower, "has all artifacts but failed")
           \/ Includes(reasonLower, "all artifacts but failed")
        THEN "Has All Artifacts but Failed"
      ELSE IF Includes(reasonLower, "off topic")
           \/ Includes(reasonLower, "not neuro-symbolic")
        THEN "Off Topic / Not Neuro-Symbolic"
      ELSE IF Includes(reasonLower, "background") \/ Includes(reasonLower, "review")
           \/ Includes(reasonLower, "survey")
        THEN "Review/Background Article"
      ELSE IF Includes(reasonLower, "no fulltext") \/ Includes(reasonLower, "no full text")
        THEN "No Fulltext Available"
      ELSE IF Includes(reasonLower, "not research")
           \/ Includes(reasonLower, "not a research")
        THEN "Not a Research Article"
      ELSE IF Includes(reasonLower, "not reproduceable")
           \/ Includes(reasonLower, "not reproduced")
           \/ Includes(reasonLower, "reproduction failed")
        THEN "The reported results were not reproduceable"
      ELSE reason

\* String(excel[column] || '').toLowerCase()
Answer(excel, column) ==
  ToLowerCase(IF column \in DOMAIN excel THEN excel[column] ELSE "")

ColOffTopic == "Does the paper discuss Neuro-Symbolic AI"
ColBackground == "The paper is Not a Review"
ColResearch == "Does the paper present an original research study?"
ColFulltext == "Is the Full Text available for the paper?"
ColReproStatus == "Were the results reproduced? (did the results obtained match (from full to partial) the reported results from the paper)"
ColReproducible == "Is the study reproducible (is the codebase AND data AND model artifacts required to reproduce publicly available)? "
ColCodebase == "The paper has an associated codebase"
ColQuantEval == "Does the paper include a Quantitative Evaluation"

\* the inference, had the codebase rule come before the screening rules
inferredReason_CodebaseFirst(excel) ==
  LET isOffTopicLower     == Answer(excel, ColOffTopic)
      isBackgroundLower   == Answer(excel, ColBackground)
      isResearchLower     == Answer(excel, ColResearch)
      hasFulltextLower    == Answer(excel, ColFulltext)
      reproStatusLower    == Answer(excel, ColReproStatus)
      isReproducibleLower == Answer(excel, ColReproducible)
      hasCodebaseLower    == Answer(excel, ColCodebase)
      hasQuantEvalLower   == Answer(excel, ColQuantEval)
  IN  IF hasCodebaseLower = "no" THEN "Missing Code"
      ELSE IF hasQuantEvalLower = "no" \/ hasQuantEvalLower = "n"
           \/ hasQuantEvalLower = "false" \/ hasQuantEvalLower = "0"
        THEN "No quantitative evaluation"
      ELSE IF isOffTopicLower = "no" THEN "Not Attempted - Off Topic"
      ELSE IF isBackgroundLower = "no" THEN "Not Attempted - Background Article"
      ELSE IF isResearchLower = "no" THEN "Not Attempted - Not a Research Article"
      ELSE IF hasFulltextLower = "no" THEN "Not Attempted - No Fulltext"
      ELSE IF Includes(reproStatusLower, "partial") /\ Includes(reproStatusLower, "below")
        THEN "Partially Reproduced (Below Threshold)"
      ELSE IF Includes(reproStatusLower, "partial") /\ Includes(reproStatusLower, "above")
        THEN "Partially Reproduced (Above Threshold)"
      ELSE IF isReproducibleLower = "yes"
           /\ (reproStatusLower = "no" \/ Includes(reproStatusLower, "failed"))
        THEN "Has All Artifacts but Failed"
      ELSE IF isReproducibleLower = "no" /\ hasCodebaseLower = "yes"
        THEN "Missing Some Artifacts (not code, e.g. data, model, etc.)"
      ELSE IF reproStatusLower = "no" \/ Includes(reproStatusLower, "not reproduced")
        THEN "Missing Some Artifacts (not code, e.g. data, model, etc.)"
      ELSE "Missing Some Artifacts (not code, e.g. data, model, etc.)"

\* the else branch: the reason inferred from excel_data
inferredReason(excel) ==
  LET isOffTopicLower     == Answer(excel, ColOffTopic)
      isBackgroundLower   == Answer(excel, ColBackground)
      isResearchLower     == Answer(excel, ColResearch)
      hasFulltextLower    == Answer(excel, ColFulltext)
      reproStatusLower    == Answer(excel, ColReproStatus)
      isReproducibleLower == Answer(excel, ColReproducible)
      hasCodebaseLower    == Answer(excel, ColCodebase)
      hasQuantEvalLower   == Answer(excel, ColQuantEval)
  IN  IF hasQuantEvalLower = "no" \/ hasQuantEvalLower = "n"
           \/ hasQuantEvalLower = "false" \/ hasQuantEvalLower = "0"
        THEN "No quantitative evaluation"
      ELSE IF isOffTopicLower = "no" THEN "Not Attempted - Off Topic"
      ELSE IF isBackgroundLower = "no" THEN "Not Attempted - Background Article"
      ELSE IF isResearchLower = "no" THEN "Not Attempted - Not a Research Article"
      ELSE IF hasFulltextLower = "no" THEN "Not Attempted - No Fulltext"
      ELSE IF hasCodebaseLower = "no" THEN "Missing Code"
      ELSE IF Includes(reproStatusLower, "partial") /\ Includes(reproStatusLower, "below")
        THEN "Partially Reproduced (Below Threshold)"
      ELSE IF Includes(reproStatusLower, "partial") /\ Includes(reproStatusLower, "above")
        THEN "Partially Reproduced (Above Threshold)"
      ELSE IF isReproducibleLower = "yes"
           /\ (reproStatusLower = "no" \/ Includes(reproStatusLower, "failed"))
        THEN "Has All Artifacts but Failed"
      ELSE IF isReproducibleLower = "no" /\ hasCodebaseLower = "yes"
        THEN "Missing Some Artifacts (not code, e.g. data, model, etc.)"
      ELSE IF reproStatusLower = "no" \/ Includes(reproStatusLower, "not reproduced")
        THEN "Missing Some Artifacts (not code, e.g. data, model, etc.)"
      ELSE "Missing Some Artifacts (not code, e.g. data, model, etc.)"

\* the reason of a paper before the normalizer: reproduction_category when it
\* is set, the inferred reason otherwise
\* a reason that prefers what the answers say to the category the paper carries
rawReason_InferredFirst(paper) ==
  IF paper.excel_data # << >> THEN inferredReason(paper.excel_data)
  ELSE IF paper.reproduction_category # "" THEN paper.reproduction_category
  ELSE inferredReason(paper.excel_data)

rawReason(paper) ==
  IF paper.reproduction_category # "" THEN paper.reproduction_category
  ELSE inferredReason(paper.excel_data)

\* the body of excluded.forEach: Null when the paper is skipped by a return
finalReason(paper) ==
  IF paper.reproduction_category # ""
       /\ isReproducedReason(ToLowerCase(paper.reproduction_category))
  THEN Null
  ELSE normalizeExclusionReasonForFinalExcluded(rawReason(paper))

\* the push, had it assigned the list of the category anew
pushPaper_Replacing(cats, reason, paper) ==
  LET i == IndexOf(cats, reason)
  IN  IF i = 0 THEN Append(cats, [reason |-> reason, papers |-> << paper >>])
      ELSE [cats EXCEPT ![i].papers = << paper >>]

\* if (!categories[reason]) categories[reason] = []; categories[reason].push(paper)
pushPaper(cats, reason, paper) ==
  LET i == IndexOf(cats, reason)
  IN  IF i = 0 THEN Append(cats, [reason |-> reason, papers |-> << paper >>])
      ELSE [cats EXCEPT ![i].papers = Append(@, paper)]

RECURSIVE groupFinalPapers(_, _)
groupFinalPapers(cats, papers) ==
  IF papers = <<>> THEN cats
  ELSE LET reason == finalReason(Head(papers))
       IN  groupFinalPapers(IF reason = Null \/ reason = "" THEN cats
                            ELSE pushPaper(cats, reason, Head(papers)),
                            Tail(papers))

categorizeFinalExcludedPapers(papers) ==
  SortByLengthDesc(groupFinalPapers(<<>>, papers))

(***************************************************************************)
(* populateOverview: the rows of the breakdown table and the series of pie *)
(* chart 1 (labels, counts), after the call of createSankeyDiagram.        *)
(***************************************************************************)
sortedEntries_populateOverview(data) ==
  SortByCountDesc(consolidatedData_populateOverview(
    data.rayyan_screening.excluded_out_of_scope.breakdown.individual_criteria_counts))

\* const includedCount = 84; const excludedCount = 2283; the comment of the
\* latter reads "1851 out-of-scope + 432 excluded from in-scope"
includedCount == 84
excludedCount == 2283
outOfScopeCount == 1851

\* const totalPapers = 516: the divisor of the percentages of table 2
totalPapers == 516

\* the funnelBreakdown literal of populateOverview (pie chart 2 and table 2)
funnelBreakdown_populateOverview ==
  << [name |-> "Fully Reproduced", count |-> 48],
     [name |-> "Partially Reproduced (above threshold)", count |-> 37],
     [name |-> "Has All Artifacts but Failed", count |-> 7],
     [name |-> "Missing Code", count |-> 42],
     [name |-> "Not Attempted - No Fulltext", count |-> 6],
     [name |-> "Not Attempted - Off Topic", count |-> 30],
     [name |-> "Not Attempted - Not a Research Article", count |-> 1],
     [name |-> "Not Attempted - Background Article", count |-> 3],
     [name |-> "No quantitative evaluation", count |-> 21],
     [name |-> "Missing Some Artifacts (not code, e.g. data, model, etc.)",
      count |-> 321] >>

\* the summary line, the breakdown table with pie chart 1, and the funnel
\* table with pie chart 2
populateOverview(data) ==
  LET sortedEntries == sortedEntries_populateOverview(data)
  IN  [rows   |-> sortedEntries,
       labels |-> [i \in 1..Len(sortedEntries) |-> sortedEntries[i].reason],
       counts |-> [i \in 1..Len(sortedEntries) |-> sortedEntries[i].count],
       summary |-> [included |-> includedCount, excluded |-> excludedCount],
       funnel  |-> funnelBreakdown_populateOverview,
       totalPapers |-> totalPapers]

(***************************************************************************)
(* The excluded-papers list of the page (#excluded-papers-list) and the    *)
(* input handler setupSearch attaches to #excluded-search.  An element is  *)
(* a record; `display` is its style.display, '' until a handler sets it.   *)
(***************************************************************************)
\* createPaperListItem(paper, false, true).textContent for a record with an
\* article_id and no title, author, year or link: '(Untitled)', 'Year: n.d.'
\* and the id.  A run of white space is written as one blank and the
\* separator dot before 'ID' is left out.
textContent(article) == "(Untitled) Year: n.d. ID: " \o article.article_id

\* the <li> of a paper
createPaperListItem(article) == [text |-> textContent(article), display |-> ""]

\* the block populatePaperLists appends for one [reason, { count, papers }]:
\* the badge shows data.count, the drop-down content starts closed
categoryDiv(entry) ==
  [reason  |-> entry.reason,
   badge   |-> entry.count,
   display |-> "",
   content |-> "none",
   items   |-> [k \in DOMAIN entry.papers |-> createPaperListItem(entry.papers[k])]]

excludedPapersList(categorized) ==
  [i \in DOMAIN categorized |-> categoryDiv(categorized[i])]

\* item.style.display = text.includes(searchTerm) ? 'block' : 'none'
searchItem(item, searchTerm) ==
  [item EXCEPT !.display = IF Includes(ToLowerCase(item.text), searchTerm)
                           THEN "block" ELSE "none"]

\* categoryDiv.style.display = hasVisibleItems ? 'block' : 'none'
searchCategory(div, searchTerm) ==
  LET items == [k \in DOMAIN div.items |-> searchItem(div.items[k], searchTerm)]
      hasVisibleItems == \E k \in DOMAIN items : items[k].display = "block"
  IN  [div EXCEPT !.items = items,
                  !.display = IF hasVisibleItems THEN "block" ELSE "none"]

\* the 'input' listener of setupSearch, drop-down branch
onSearchInput(list, value) ==
  [i \in DOMAIN list |-> searchCategory(list[i], ToLowerCase(value))]

\* the 'click' listener of a drop-down header
toggleDropdown(div) ==
  [div EXCEPT !.content = IF @ = "none" THEN "block" ELSE "none"]

(***************************************************************************)
(* Inputs.                                                                 *)
(***************************************************************************)
\* all sequences of length n over S without repeated reasons (object keys)
RECURSIVE KeyedSeqs(_, _)
KeyedSeqs(S, n) ==
  IF n = 0 THEN { <<>> }
  ELSE { Append(q, e) : q \in KeyedSeqs(S, n - 1), e \in S }

DistinctReasons(q) ==
  \A i, j \in DOMAIN q : i # j => q[i].reason # q[j].reason

\* rows present in every larger breakdown: seven raw categories that
\* consolidate to seven different categories
BaseRows ==
  << [reason |-> "No codebase/implementation", count |-> 2],
     [reason |-> "Off-topic/Not neuro-symbolic", count |-> 2],
     [reason |-> "Not research paper", count |-> 2],
     [reason |-> "No evaluation", count |-> 2],
     [reason |-> "Duplicate", count |-> 2],
     [reason |-> "__EXR__no-fulltext", count |-> 2],
     [reason |-> "__EXR__not-in-english", count |-> 2] >>

FreeReasons == { "Survey/review paper", "Background article", "Other/Unclear",
                 "__EXR__foreign language", "__EXR__c" }
FreeCounts == { 1, 3 }
FreeRows == { [reason |-> r, count |-> c] : r \in FreeReasons, c \in FreeCounts }

RowSeqs ==
  { b \o q : b \in { <<>>, BaseRows },
             q \in { f \in UNION { KeyedSeqs(FreeRows, n) : n \in 0..MaxFree } :
                       DistinctReasons(f) } }

TotalCounts == { 0, 3, 20 }
IncludedCounts == { 515, 516 }
DuplicateCounts == { 3 }

\* the pairs of totals a document carries: the in-scope count that differs
\* from the funnel's total comes with the empty exclusion total
OverviewCounts ==
  { c \in [total : TotalCounts, included : IncludedCounts] :
      (c.included = 515) <=> (c.total = 0) }

\* the analyzer's percentage of a category, in tenths of a percent
Percentage(count, total) == IF total = 0 THEN 0 ELSE (count * 1000) \div total

OverviewDocument(rows, total, included, duplicates) ==
  [ search_and_deduplication |->
      [ total_results_retrieved |-> included + total + duplicates,
        after_dedup_rayyan |-> included + total ],
    rayyan_screening |->
      [ included_within_scope |-> included,
        excluded_out_of_scope |->
          [ total_count |-> total,
            breakdown |->
              [ individual_criteria_counts |->
                  [ i \in 1..Len(rows) |->
                      [ reason |-> rows[i].reason,
                        count |-> rows[i].count,
                        percentage |-> Percentage(rows[i].count, total) ] ] ] ] ] ]

Article(id, customizations) ==
  [article_id |-> id, hasCustomizations |-> TRUE, customizations |-> customizations]
ArticleWithoutCustomizations(id) ==
  [article_id |-> id, hasCustomizations |-> FALSE, customizations |-> <<>>]
Flag(key, value) == [key |-> key, value |-> value]

\* the excluded records of the runs that vary the overview document
DefaultExcluded ==
  << Article("rayyan-101", << Flag("\"__EXR__no-codebase\"", StringValue("1")) >>),
     Article("rayyan-102", << Flag("\"__EXR__survey\"", StringValue("1")),
                              Flag("\"__EXR__no-codebase\"", StringValue("1")) >>) >>

NoSankey == [nodes |-> <<>>, links |-> <<>>]
NoTable ==
  [rows |-> <<>>, labels |-> <<>>, counts |-> <<>>,
   summary |-> [included |-> 0, excluded |-> 0], funnel |-> <<>>, totalPapers |-> 0]

(***************************************************************************)
(* The page: init() has loaded the documents; populateOverview builds the  *)
(* flow diagram and the table, populatePaperLists the drop-down lists.     *)
(***************************************************************************)
Init ==
  /\ pc = "loaded"
  /\ \E rows \in RowSeqs, counts \in OverviewCounts,
        duplicates \in DuplicateCounts :
       overviewData = OverviewDocument(rows, counts.total, counts.included,
                                       duplicates)
  /\ excluded = DefaultExcluded
  /\ finalExcluded = <<>>
  /\ sankey = NoSankey
  /\ overviewTable = NoTable
  /\ categorizedExcluded = <<>>
  /\ categories = <<>>
  /\ extracted = <<>>
  /\ finalCategories = <<>>
  /\ console = <<>>
  /\ includeData = <<>>
  /\ loadedIncludeData = <<>>
  /\ clusterLinksData = NoClusterLinks
  /\ enrichedIncludeData = <<>>
  /\ loads = NoLoads
  /\ sections = <<>>
  /\ searchInput = ""
  /\ excList = <<>>
  /\ rawLabel = ""
  /\ normalized = <<>>
  /\ renormalized = <<>>

PopulateOverview ==
  /\ pc = "loaded"
  /\ sankey' = createSankeyDiagram(overviewData)
  /\ overviewTable' = populateOverview(overviewData)
  /\ pc' = "overview"
  /\ UNCHANGED <<overviewData, excluded, finalExcluded, categorizedExcluded,
                 categories, extracted, finalCategories, console,
                 labelVars, enrichVars, loadVars, listVars>>

PopulatePaperLists ==
  /\ pc = "overview"
  /\ categorizedExcluded' =
       categorizeExcludedPapersFromConsolidatedData(overviewData, excluded)
  /\ excList' =
       excludedPapersList(
         categorizeExcludedPapersFromConsolidatedData(overviewData, excluded))
  /\ pc' = "lists"
  /\ UNCHANGED <<overviewData, excluded, finalExcluded, sankey, overviewTable,
                 categories, extracted, finalCategories, console,
                 labelVars, enrichVars, loadVars, searchInput>>

\* the page loaded once more with the same documents: init runs
\* populateOverview and populatePaperLists again
RunAgain ==
  /\ pc = "lists"
  /\ sankey' = createSankeyDiagram(overviewData)
  /\ overviewTable' = populateOverview(overviewData)
  /\ categorizedExcluded' =
       categorizeExcludedPapersFromConsolidatedData(overviewData, excluded)
  /\ excList' =
       excludedPapersList(
         categorizeExcludedPapersFromConsolidatedData(overviewData, excluded))
  /\ pc' = "again"
  /\ UNCHANGED <<overviewData, excluded, finalExcluded, categories, extracted,
                 finalCategories, console, labelVars, enrichVars, loadVars,
                 searchInput>>

Next == PopulateOverview \/ PopulatePaperLists \/ RunAgain

Spec == Init /\ [][Next]_vars

(***************************************************************************)
(* The functions on article records, applied to bounded record sets: one   *)
(* article with any customizations over ExtractFlags, or up to MaxRecords  *)
(* articles whose customizations are one of FlagLists.                     *)
(***************************************************************************)
ExtractFlags ==
  { Flag("\"__EXR__no-codebase\"", StringValue("1")),
    Flag("\"__EXR__no-eval\"", StringValue("1")),
    Flag("\"__EXR__survey\"", StringValue("1")),
    Flag("\"__EXR__review\"", StringValue("1")),
    Flag("\"__EXR__zzz\"", StringValue("1")),
    Flag("\"__EXR__no-codebase\"\"", StringValue("1")),
    Flag("__EXR__no-codebase", StringValue("1")),
    Flag("\"included\"", StringValue("1")),
    Flag("\"__EXR__no-codebase\"", StringValue("0")),
    Flag("\"__EXR__no-codebase\"", NumberValue("1")) }

\* the entries of one object have different keys
DistinctKeys(q) ==
  \A i, j \in DOMAIN q : i # j => q[i].key # q[j].key

RECURSIVE FlagSeqs(_)
FlagSeqs(n) ==
  IF n = 0 THEN { <<>> }
  ELSE { q \in { Append(r, f) : r \in FlagSeqs(n - 1), f \in ExtractFlags } :
           DistinctKeys(q) }

SingleArticles ==
  { Article("rayyan-101", q) :
      q \in UNION { FlagSeqs(n) : n \in 0..MaxCustomizations } }
  \cup { ArticleWithoutCustomizations("rayyan-101") }

\* one article for every raw code of the screening table, flagged with it
ScreeningCodes ==
  { "off-topic", "no-codebase", "survey", "background article", "review",
    "not-research", "no-eval", "duplicate", "no-fulltext", "not-in-english",
    "foreign language", "c", "wrong outcome", "engl", "v", "Other/Unclear" }

TableArticles ==
  { Article("rayyan-101", << Flag("\"__EXR__" \o code \o "\"", StringValue("1")) >>) :
      code \in ScreeningCodes }

NoCodebase == Flag("\"__EXR__no-codebase\"", StringValue("1"))
NoEval     == Flag("\"__EXR__no-eval\"", StringValue("1"))
Survey     == Flag("\"__EXR__survey\"", StringValue("1"))
Review     == Flag("\"__EXR__review\"", StringValue("1"))
Unset      == Flag("\"__EXR__no-codebase\"", StringValue("0"))
\* a second key, quoted differently, that sets the code of NoCodebase
NoCodebaseRequoted == Flag("\"__EXR__no-codebase\"\"", StringValue("1"))

FlagLists ==
  { << >>, << Unset >>, << NoCodebase >>, << NoEval >>,
    << NoCodebase, NoCodebaseRequoted >>, << NoCodebase, NoEval >>,
    << NoEval, NoCodebase >>, << Survey, Review >>,
    << Survey, NoCodebase, NoEval >> }

ArticleIds == << "rayyan-101", "rayyan-102", "rayyan-103", "rayyan-104" >>

RECURSIVE FlagListSeqs(_)
FlagListSeqs(n) ==
  IF n = 0 THEN { <<>> }
  ELSE { Append(q, l) : q \in FlagListSeqs(n - 1), l \in FlagLists }

\* article records with distinct article_id values (the data model's invariant)
RecordSets ==
  { [i \in 1..Len(q) |-> Article(ArticleIds[i], q[i])] :
      q \in UNION { FlagListSeqs(n) : n \in 0..MaxRecords } }
  \cup { << ArticleWithoutCustomizations(ArticleIds[1]),
            Article(ArticleIds[2], << NoCodebase >>) >> }

DefaultOverview ==
  OverviewDocument(<< [reason |-> "No codebase/implementation", count |-> 2],
                      [reason |-> "Survey/review paper", count |-> 1],
                      [reason |-> "No evaluation", count |-> 1] >>, 3, 516, 3)

InitRecords ==
  /\ pc = "records"
  /\ excluded \in { <<a>> : a \in SingleArticles \cup TableArticles } \cup RecordSets
  /\ overviewData = DefaultOverview
  /\ finalExcluded = <<>>
  /\ sankey = NoSankey
  /\ overviewTable = NoTable
  /\ categorizedExcluded = <<>>
  /\ categories = <<>>
  /\ extracted = <<>>
  /\ finalCategories = <<>>
  /\ console = <<>>
  /\ includeData = <<>>
  /\ loadedIncludeData = <<>>
  /\ clusterLinksData = NoClusterLinks
  /\ enrichedIncludeData = <<>>
  /\ loads = NoLoads
  /\ sections = <<>>
  /\ searchInput = ""
  /\ excList = <<>>
  /\ rawLabel = ""
  /\ normalized = <<>>
  /\ renormalized = <<>>

ExtractCriteria ==
  /\ pc = "records"
  /\ extracted' = [i \in DOMAIN excluded |-> extractExclusionCriteria(excluded[i])]
  /\ pc' = "extracted"
  /\ UNCHANGED <<overviewData, excluded, finalExcluded, sankey, overviewTable,
                 categorizedExcluded, categories, finalCategories, console,
                 labelVars, enrichVars, loadVars, listVars>>

CategorizeExcludedPapers ==
  /\ pc = "extracted"
  /\ categories' = categorizeExcludedPapers(excluded)
  /\ pc' = "categorized"
  /\ UNCHANGED <<overviewData, excluded, finalExcluded, sankey, overviewTable,
                 categorizedExcluded, extracted, finalCategories, console,
                 labelVars, enrichVars, loadVars, listVars>>

CategorizeFromConsolidatedData ==
  /\ pc = "categorized"
  /\ categorizedExcluded' =
       categorizeExcludedPapersFromConsolidatedData(overviewData, excluded)
  /\ pc' = "lists"
  /\ UNCHANGED <<overviewData, excluded, finalExcluded, sankey, overviewTable,
                 categories, extracted, finalCategories, console,
                 labelVars, enrichVars, loadVars, listVars>>

NextRecords ==
  ExtractCriteria \/ CategorizeExcludedPapers \/ CategorizeFromConsolidatedData

SpecRecords == InitRecords /\ [][NextRecords]_vars

(***************************************************************************)
(* Properties of the flow diagram and of the views (specification Spec).   *)
(***************************************************************************)
breakdownOf(data) ==
  data.rayyan_screening.excluded_out_of_scope.breakdown.individual_criteria_counts

RECURSIVE SumValues(_)
SumValues(links) ==
  IF links = <<>> THEN 0 ELSE Head(links).value + SumValues(Tail(links))

OutgoingLinks(sk, id) == SelectSeq(sk.links, LAMBDA l : l.source = id)

SplitNodes(sk) ==
  { n \in Range(sk.nodes) : \E l \in Range(sk.links) : l.source = n.id }

Conserved(sk, n) == n.value = SumValues(OutgoingLinks(sk, n.id))

\* the nodes of the exclusion categories: fed by After Dedup (node 2), and
\* neither In-Scope nor the remainder
ExclusionNodes(sk) ==
  { n \in Range(sk.nodes) :
      /\ \E l \in Range(sk.links) : l.source = 2 /\ l.target = n.id
      /\ n.id # 3
      /\ n.name # "Other reasons" }

\* C1: in the flow diagram, every node with outgoing links (Total Hits, After
\* Dedup, In-Scope) has a value equal to the sum of its outgoing link values,
\* for every overview document.
C1_Conservation ==
  pc # "loaded" => \A n \in SplitNodes(sankey) : Conserved(sankey, n)

\* C2: the consolidated mapping computed by populateOverview, by
\* createSankeyDiagram and by categorizeExcludedPapersFromConsolidatedData is
\* the same mapping, and a category shown in several views (table row, pie
\* series, flow-diagram node, drop-down badge) has the same count in each.
C2_CrossViewAgreement ==
  pc = "lists" =>
    /\ consolidatedData_populateOverview(breakdownOf(overviewData))
         = consolidatedBreakdown_createSankeyDiagram(breakdownOf(overviewData))
    /\ consolidatedData_populateOverview(breakdownOf(overviewData))
         = consolidatedData_fromConsolidatedData(breakdownOf(overviewData))
    /\ \A n \in ExclusionNodes(sankey) :
         \E i \in DOMAIN overviewTable.rows :
           /\ overviewTable.rows[i].reason = n.name
           /\ overviewTable.rows[i].count = n.value
    /\ Len(categorizedExcluded) = Len(overviewTable.rows)
    /\ \A i \in DOMAIN overviewTable.rows :
         /\ categorizedExcluded[i].reason = overviewTable.rows[i].reason
         /\ categorizedExcluded[i].count = overviewTable.rows[i].count
         /\ overviewTable.labels[i] = overviewTable.rows[i].reason
         /\ overviewTable.counts[i] = overviewTable.rows[i].count

\* a merged category (two raw rows, counts 1 and 3) is shown by all three
\* views, and the table has more categories than the flow diagram displays
C2_Witness ==
  /\ pc = "lists"
  /\ Len(overviewTable.rows) > TopN
  /\ \E n \in ExclusionNodes(sankey) :
       n.name = "review/background article" /\ n.value = 4
  /\ \E i \in DOMAIN categorizedExcluded :
       /\ categorizedExcluded[i].reason = "review/background article"
       /\ categorizedExcluded[i].count = 4

\* C10: when the displayed top categories sum to more than the reported
\* excluded total (negative remainder), the flow-diagram construction surfaces
\* an integrity diagnostic.
C10_NegativeRemainderDiagnosed ==
  ( /\ pc # "loaded"
    /\ excludedIsNumber(overviewData)
    /\ remainingExcluded(overviewData) < 0 )
  => console # <<>>

RECURSIVE SumPercentages(_)
SumPercentages(entries) ==
  IF entries = <<>> THEN 0
  ELSE Head(entries).percentage + SumPercentages(Tail(entries))

\* the raw categories of the breakdown that the table's mapping sends to a
\* consolidated category
RawOf(data, consolidated) ==
  SelectSeq(breakdownOf(data),
            LAMBDA e : consolidatedReason_populateOverview(e.reason) = consolidated)

RemainderNodes(sk) == { n \in Range(sk.nodes) : n.name = "Other reasons" }

RemainderLinks(sk) ==
  SelectSeq(sk.links, LAMBDA l : \E n \in RemainderNodes(sk) : l.target = n.id)

\* the links from After Dedup to the displayed exclusion categories
DisplayedLinks(sk) ==
  SelectSeq(sk.links, LAMBDA l : /\ l.source = 2
                                 /\ \E n \in ExclusionNodes(sk) : l.target = n.id)

\* C11: the 'Other reasons' remainder of the flow diagram is computed:
\* whenever the node is emitted, at most TopN categories are displayed, the
\* node and its one link carry the reported excluded total minus the sum of
\* the displayed categories' counts, and that value is not negative; no link
\* into a remainder node is negative.
C11_RemainderComputed ==
  pc # "loaded" =>
    /\ Cardinality(RemainderNodes(sankey)) <= 1
    /\ \A n \in RemainderNodes(sankey) :
         /\ Len(DisplayedLinks(sankey)) <= TopN
         /\ n.value = overviewData.rayyan_screening.excluded_out_of_scope.total_count
                        - SumValues(DisplayedLinks(sankey))
         /\ n.value >= 0
         /\ RemainderLinks(sankey) = << [source |-> 2, target |-> n.id, value |-> n.value] >>
    /\ \A i \in DOMAIN RemainderLinks(sankey) : RemainderLinks(sankey)[i].value >= 0

\* more categories than are displayed, and a remainder node that carries
\* what the displayed ones leave of the total
C11_Witness ==
  /\ pc = "overview"
  /\ Len(overviewTable.rows) > TopN
  /\ Len(DisplayedLinks(sankey)) = TopN
  /\ \E n \in RemainderNodes(sankey) :
       /\ n.value > 0
       /\ n.value + SumValues(DisplayedLinks(sankey)) = 20

(***************************************************************************)
(* Properties of the functions on records (specification SpecRecords).     *)
(***************************************************************************)
\* the canonical categories of a record: its criteria, normalized
CategoriesOf(article) ==
  { getReadableExclusionReason(c) : c \in Range(extractExclusionCriteria(article)) }

RECURSIVE SumSizes(_)
SumSizes(cats) ==
  IF cats = <<>> THEN 0 ELSE Len(Head(cats).papers) + SumSizes(Tail(cats))

CanonicalOnly(cats) == SelectSeq(cats, LAMBDA c : c.reason # "No explicit criteria")

\* the number of canonical categories of the grouping that list the record
MembershipCount(cats, article) ==
  Cardinality({ i \in DOMAIN cats :
                  /\ cats[i].reason # "No explicit criteria"
                  /\ article \in Range(cats[i].papers) })

\* the analyzer's three counters, read off the grouping
no_criterion_count(cats) == Len(bucketOf(cats, "No explicit criteria"))
single_criterion_count(cats, records) ==
  Cardinality({ i \in DOMAIN records : MembershipCount(cats, records[i]) = 1 })
multi_criterion_count(cats, records) ==
  Cardinality({ i \in DOMAIN records : MembershipCount(cats, records[i]) >= 2 })

\* C3 as stated: the counts of the canonical categories sum to at least the
\* number of records, with equality exactly when no record has more than one
\* category.
C3_CanonicalSumBound ==
  pc = "categorized" =>
    /\ SumSizes(CanonicalOnly(categories)) >= Len(excluded)
    /\ ( SumSizes(CanonicalOnly(categories)) = Len(excluded)
           <=> \A i \in DOMAIN excluded : Cardinality(CategoriesOf(excluded[i])) <= 1 )

\* C3, amended: the sizes of all categories categorizeExcludedPapers returns,
\* the 'No explicit criteria' bucket included, sum to at least the number of
\* records, with equality exactly when no record has more than one category.
C3_CategorySumBound ==
  pc = "categorized" =>
    /\ SumSizes(categories) >= Len(excluded)
    /\ ( SumSizes(categories) = Len(excluded)
           <=> \A i \in DOMAIN excluded : Cardinality(CategoriesOf(excluded[i])) <= 1 )

C3_Witness ==
  /\ pc = "categorized"
  /\ Len(excluded) = 2
  /\ SumSizes(categories) = 3
  /\ \E i \in DOMAIN excluded : Cardinality(CategoriesOf(excluded[i])) = 0

\* C4: the grouping puts every record in exactly one of three groups: no
\* criterion (the 'No explicit criteria' bucket), exactly one canonical
\* category, two or more; the three counts sum to the number of records.
C4_PartitionCompleteness ==
  pc = "categorized" =>
    /\ no_criterion_count(categories) + single_criterion_count(categories, excluded)
         + multi_criterion_count(categories, excluded) = Len(excluded)
    /\ \A i \in DOMAIN excluded :
         /\ MembershipCount(categories, excluded[i])
              = Cardinality(CategoriesOf(excluded[i]))
         /\ excluded[i] \in Range(bucketOf(categories, "No explicit criteria"))
              <=> MembershipCount(categories, excluded[i]) = 0

C4_Witness ==
  /\ pc = "categorized"
  /\ no_criterion_count(categories) = 1
  /\ single_criterion_count(categories, excluded) = 1
  /\ multi_criterion_count(categories, excluded) = 0
  /\ Len(excluded) = 2

\* the screening table: raw code -> canonical category
ScreeningTable ==
  { [code |-> "off-topic",          category |-> "Off-topic/Not neuro-symbolic"],
    [code |-> "no-codebase",        category |-> "No codebase/implementation"],
    [code |-> "survey",             category |-> "review/background article"],
    [code |-> "background article", category |-> "review/background article"],
    [code |-> "review",             category |-> "review/background article"],
    [code |-> "not-research",       category |-> "Not research paper"],
    [code |-> "no-eval",            category |-> "No evaluation"],
    [code |-> "duplicate",          category |-> "Duplicate"],
    [code |-> "no-fulltext",        category |-> "no-fulltext"],
    [code |-> "not-in-english",     category |-> "not-in-english"],
    [code |-> "foreign language",   category |-> "not-in-english"],
    [code |-> "c",                  category |-> "No codebase/implementation"],
    [code |-> "wrong outcome",      category |-> "No codebase/implementation"],
    [code |-> "engl",               category |-> "No codebase/implementation"],
    [code |-> "v",                  category |-> "No codebase/implementation"],
    [code |-> "Other/Unclear",      category |-> "No codebase/implementation"] }

\* the table's category of a criterion, the criterion itself when unlisted
ListedCategory(criterion) ==
  IF \E row \in ScreeningTable : "__EXR__" \o row.code = criterion
  THEN (CHOOSE row \in ScreeningTable : "__EXR__" \o row.code = criterion).category
  ELSE criterion

\* C6: getReadableExclusionReason maps every raw code of the screening table
\* (given, as the extractor gives it, behind the marker) to the category the
\* table lists for it, and returns a code that is not in the table unchanged:
\* every record is grouped under the listed category of each of its criteria.
C6_ScreeningTableMapped ==
  pc = "categorized" =>
    \A i \in DOMAIN excluded :
      \A c \in Range(extracted[i]) :
        /\ getReadableExclusionReason(c) = ListedCategory(c)
        /\ excluded[i] \in Range(bucketOf(categories, ListedCategory(c)))

\* strip the quote characters that wrap a key
RECURSIVE StripWrappingQuotes(_)
StripWrappingQuotes(s) ==
  IF s = "" THEN ""
  ELSE IF Head(s) = "\"" THEN StripWrappingQuotes(Tail(s))
  ELSE IF SubSeq(s, Len(s), Len(s)) = "\""
    THEN StripWrappingQuotes(SubSeq(s, 1, Len(s) - 1))
  ELSE s

\* the remainder of a key after the reserved marker
CodeOf(k) == IF StartsWith(k, "__EXR__") THEN SubSeq(k, 8, Len(k)) ELSE k

\* the codes the extractor is specified to return for an article
ClaimedCodes(article) ==
  IF ~article.hasCustomizations THEN {}
  ELSE { CodeOf(StripWrappingQuotes(article.customizations[k].key)) :
           k \in { j \in DOMAIN article.customizations :
                     /\ StartsWith(StripWrappingQuotes(article.customizations[j].key),
                                   "__EXR__")
                     /\ article.customizations[j].value = StringValue("1") } }

\* C7: the extractor returns exactly the codes of the entries whose key, with
\* its wrapping quotes stripped, starts with __EXR__ and whose value is the
\* string "1"; nothing for other entries, nothing for an article without
\* annotations.  (A returned element counts as its code with or without the
\* marker in front.)
C7_ExtractsExactlySetFlags ==
  pc # "records" =>
    \A i \in DOMAIN excluded :
      { CodeOf(c) : c \in Range(extracted[i]) } = ClaimedCodes(excluded[i])

Occurrences(q, x) == Cardinality({ k \in DOMAIN q : q[k] = x })

NoPaperTwice(cats) ==
  \A i \in DOMAIN cats :
    \A j, k \in DOMAIN cats[i].papers :
      j # k => cats[i].papers[j].article_id # cats[i].papers[k].article_id

\* the record's set flags are all flags of one code
OnlyDuplicatesOfOneCode(article) ==
  Cardinality(Range(extractExclusionCriteria(article))) = 1

ContributesOnce(cats, article) ==
  LET c == CHOOSE x \in Range(extractExclusionCriteria(article)) : TRUE
  IN  /\ Occurrences(bucketOf(cats, getReadableExclusionReason(c)), article) = 1
      /\ \A i \in DOMAIN cats :
           cats[i].reason # getReadableExclusionReason(c)
             => Occurrences(cats[i].papers, article) = 0

\* C9: in the per-category grouping (categorizeExcludedPapers, and the
\* paperBuckets of categorizeExcludedPapersFromConsolidatedData) a record is
\* listed at most once per category, also with duplicate flags or with raw
\* codes that map to one category; a record whose set flags are all flags of
\* one code is listed exactly once, in that code's category.
C9_AtMostOncePerCategory ==
  pc = "lists" =>
    /\ NoPaperTwice(categories)
    /\ NoPaperTwice(paperBuckets(excluded))
    /\ NoPaperTwice(categorizedExcluded)
    /\ \A i \in DOMAIN excluded :
         OnlyDuplicatesOfOneCode(excluded[i])
           => /\ ContributesOnce(categories, excluded[i])
              /\ ContributesOnce(paperBuckets(excluded), excluded[i])

\* a record with two flags of one code and a record with two codes of one
\* category, each listed once
C9_Witness ==
  /\ pc = "lists"
  /\ \E i, j \in DOMAIN excluded :
       /\ extracted[i] = << "__EXR__no-codebase", "__EXR__no-codebase" >>
       /\ extracted[j] = << "__EXR__survey", "__EXR__review" >>
       /\ Occurrences(bucketOf(categories, "No codebase/implementation"), excluded[i]) = 1
       /\ Occurrences(bucketOf(categories, "review/background article"), excluded[j]) = 1
       /\ \E k \in DOMAIN categorizedExcluded :
            /\ categorizedExcluded[k].reason = "review/background article"
            /\ categorizedExcluded[k].papers = << excluded[j] >>

(***************************************************************************)
(* categorizeFinalExcludedPapers applied to bounded lists of papers        *)
(* (specification SpecFinal).                                              *)
(***************************************************************************)
NoExcel == << >>

ExcelProfiles ==
  { NoExcel,
    (ColQuantEval :> "No"),
    (ColQuantEval :> "Yes") @@ (ColOffTopic :> "No"),
    (ColCodebase :> "No") @@ (ColReproStatus :> "Partially - below threshold"),
    (ColCodebase :> "Yes") @@ (ColReproStatus :> "Partially - below threshold"),
    (ColCodebase :> "Yes") @@ (ColReproStatus :> "Partial (above threshold)"),
    (ColCodebase :> "Yes") @@ (ColReproducible :> "Yes") @@ (ColReproStatus :> "Failed"),
    (ColCodebase :> "Yes") @@ (ColReproducible :> "No"),
    (ColCodebase :> "Yes") @@ (ColReproducible :> "Yes") @@ (ColReproStatus :> "Yes") }

ReproductionCategories ==
  { "Fully Reproduced",
    "Partially Reproduced (Above Threshold)",
    "Partially reproduced - below threshold",
    "Partially Reproduced",
    "Missing Code",
    "Missing Some Artifacts",
    "Not Attempted - Off Topic",
    "Data unavailable" }

FinalPaper(id, category, excel) ==
  [article_id |-> id, reproduction_category |-> category, excel_data |-> excel]

\* answers that the inference would read differently from the category the
\* paper carries
ConflictingExcelProfiles ==
  { (ColQuantEval :> "No"),
    (ColCodebase :> "No") @@ (ColReproStatus :> "Partially - below threshold"),
    (ColCodebase :> "Yes") @@ (ColReproducible :> "Yes") @@ (ColReproStatus :> "Failed") }

\* a reproduced outcome, an excluded outcome and a label outside the listing,
\* each carried together with conflicting answers
ConflictingCategories ==
  { "Fully Reproduced", "Missing Code", "Data unavailable" }

FinalPaperChoices ==
  { [reproduction_category |-> "", excel_data |-> e] : e \in ExcelProfiles }
  \cup { [reproduction_category |-> c, excel_data |-> NoExcel] :
           c \in ReproductionCategories }
  \cup { [reproduction_category |-> c, excel_data |-> e] :
           c \in ConflictingCategories, e \in ConflictingExcelProfiles }

RECURSIVE FinalChoiceSeqs(_)
FinalChoiceSeqs(n) ==
  IF n = 0 THEN { <<>> }
  ELSE { Append(q, c) : q \in FinalChoiceSeqs(n - 1), c \in FinalPaperChoices }

FinalPaperLists ==
  { [i \in 1..Len(q) |->
       FinalPaper(ArticleIds[i], q[i].reproduction_category, q[i].excel_data)] :
      q \in UNION { FinalChoiceSeqs(n) : n \in 0..MaxFinal } }

InitFinal ==
  /\ pc = "final"
  /\ finalExcluded \in FinalPaperLists
  /\ overviewData = DefaultOverview
  /\ excluded = <<>>
  /\ sankey = NoSankey
  /\ overviewTable = NoTable
  /\ categorizedExcluded = <<>>
  /\ categories = <<>>
  /\ extracted = <<>>
  /\ finalCategories = <<>>
  /\ console = <<>>
  /\ includeData = <<>>
  /\ loadedIncludeData = <<>>
  /\ clusterLinksData = NoClusterLinks
  /\ enrichedIncludeData = <<>>
  /\ loads = NoLoads
  /\ sections = <<>>
  /\ searchInput = ""
  /\ excList = <<>>
  /\ rawLabel = ""
  /\ normalized = <<>>
  /\ renormalized = <<>>

CategorizeFinalExcludedPapers ==
  /\ pc = "final"
  /\ finalCategories' = categorizeFinalExcludedPapers(finalExcluded)
  /\ pc' = "finalCategorized"
  /\ UNCHANGED <<overviewData, excluded, finalExcluded, sankey, overviewTable,
                 categorizedExcluded, categories, extracted, console,
                 labelVars, enrichVars, loadVars, listVars>>

NextFinal == CategorizeFinalExcludedPapers

SpecFinal == InitFinal /\ [][NextFinal]_vars

ReproducedLabels ==
  { "Fully Reproduced",
    "Partially Reproduced (Above Threshold)",
    "Partially Reproduced (Below Threshold)",
    "Partially Reproduced (above threshold)",
    "Partially Reproduced (below threshold)" }

\* the outcome is that of a reproduced paper: fully reproduced, or partially
\* reproduced above or below the threshold, in any letter case
IsReproducedOutcome(reason) ==
  LET l == ToLowerCase(reason)
  IN  \/ Includes(l, "fully reproduced")
      \/ /\ Includes(l, "partially reproduced")
         /\ (Includes(l, "above") \/ Includes(l, "below"))

\* C5: no category key returned by categorizeFinalExcludedPapers is a
\* reproduced-paper label, and no paper whose reproduction outcome (its
\* reproduction_category, or the outcome inferred from excel_data) is that of
\* a reproduced paper is listed in any returned category.
C5_NoReproducedInExcluded ==
  pc = "finalCategorized" =>
    \A i \in DOMAIN finalCategories :
      /\ finalCategories[i].reason \notin ReproducedLabels
      /\ finalCategories[i].reason # Null
      /\ ~IsReproducedOutcome(finalCategories[i].reason)
      /\ \A k \in DOMAIN finalCategories[i].papers :
           ~IsReproducedOutcome(rawReason(finalCategories[i].papers[k]))

\* a paper whose inferred outcome is 'partially reproduced, below threshold'
\* and a paper labelled 'Missing Code' went in; only the second is listed
C5_Witness ==
  /\ pc = "finalCategorized"
  /\ Len(finalExcluded) = 2
  /\ finalExcluded[1].reproduction_category = ""
  /\ IsReproducedOutcome(rawReason(finalExcluded[1]))
  /\ finalCategories = << [reason |-> "Missing Code", papers |-> << finalExcluded[2] >>] >>

\* the categories of the result that list a paper
CategoriesListing(cats, paper) ==
  { cats[i].reason : i \in { k \in DOMAIN cats : paper \in Range(cats[k].papers) } }

\* the categories a paper is listed in when `label` alone decides
DecidedBy(label) ==
  IF normalizeExclusionReasonForFinalExcluded(label) = Null THEN { }
  ELSE { normalizeExclusionReasonForFinalExcluded(label) }

\* C18: in categorizeFinalExcludedPapers a paper that has a
\* reproduction_category is categorized by that value alone, normalized,
\* whatever its excel_data answers say; the inference from excel_data decides
\* only for a paper without reproduction_category.
C18_CategoryTakesPrecedence ==
  pc = "finalCategorized" =>
    \A i \in DOMAIN finalExcluded :
      CategoriesListing(finalCategories, finalExcluded[i])
        = IF finalExcluded[i].reproduction_category # ""
          THEN DecidedBy(finalExcluded[i].reproduction_category)
          ELSE DecidedBy(inferredReason(finalExcluded[i].excel_data))

\* a paper labelled 'Missing Code' whose answers say 'no quantitative
\* evaluation' is listed under 'Missing Code'
C18_Witness ==
  /\ pc = "finalCategorized"
  /\ \E i \in DOMAIN finalExcluded :
       /\ finalExcluded[i].reproduction_category = "Missing Code"
       /\ finalExcluded[i].excel_data = (ColQuantEval :> "No")
       /\ inferredReason(finalExcluded[i].excel_data) = "No quantitative evaluation"
       /\ CategoriesListing(finalCategories, finalExcluded[i]) = { "Missing Code" }

(***************************************************************************)
(* The normalizers applied to single labels (specification SpecLabels):    *)
(* the lookup of getReadableExclusionReason, the three copies of the       *)
(* consolidation mapping and the two reproduction-outcome normalizers,     *)
(* each applied to a raw label and then to its own result.                 *)
(***************************************************************************)
ScreeningLabels ==
  { "Off-topic/Not neuro-symbolic", "No codebase/implementation",
    "review/background article", "Not research paper", "No evaluation",
    "Duplicate", "no-fulltext", "not-in-english" }

ReproductionLabels ==
  { "Fully Reproduced",
    "Partially Reproduced (Above Threshold)",
    "Partially Reproduced (Below Threshold)",
    "Has All Artifacts but Failed",
    "Missing Code",
    "Missing Some Artifacts (not code, e.g. data, model, etc.)",
    "No quantitative evaluation",
    "Not Attempted - Off Topic",
    "Not Attempted - Background Article",
    "Not Attempted - No Fulltext",
    "Not Attempted - Not a Research Article" }

\* raw reasons of the overview breakdown that the consolidation rewrites
OverviewReasons ==
  { "Survey/review paper", "Review paper", "Background article", "Other/Unclear" }

\* free-text outcomes, some of which satisfy several rules at once
FreeTextOutcomes ==
  { "Partially reproduced - below threshold",
    "Partially reproduced (below threshold), missing code",
    "Partially reproduced, below: missing some artifacts",
    "partially reproduced above threshold",
    "Partial - below threshold",
    "missing code", "NO CODE available", "Missing artifacts",
    "All artifacts but failed", "Not attempted: off topic",
    "Off topic", "Survey", "Literature review", "No full text",
    "Not a research article", "Quantitative evaluation: no",
    "Reproduction failed", "Data unavailable", "N/A" }

RawLabels ==
  ScreeningLabels \cup ReproductionLabels \cup OverviewReasons \cup FreeTextOutcomes
    \cup { "__EXR__" \o code : code \in ScreeningCodes }
    \cup { "__EXR__zzz" }

\* the normalizers of the page, applied to one label
normalizersOf(label) ==
  [ readable |-> getReadableExclusionReason(label),
    overview |-> consolidatedReason_populateOverview(label),
    sankey   |-> consolidatedReason_createSankeyDiagram(label),
    lists    |-> consolidatedReason_fromConsolidatedData(label),
    final    |-> normalizeExclusionReasonForFinalExcluded(label),
    generic  |-> normalizeExclusionReason(label) ]

\* each normalizer applied to its own result; a null result is skipped by
\* the caller (if (!reason) return) and is not normalized again
normalizersAgain(n) ==
  [ readable |-> getReadableExclusionReason(n.readable),
    overview |-> consolidatedReason_populateOverview(n.overview),
    sankey   |-> consolidatedReason_createSankeyDiagram(n.sankey),
    lists    |-> consolidatedReason_fromConsolidatedData(n.lists),
    final    |-> IF n.final = Null THEN Null
                 ELSE normalizeExclusionReasonForFinalExcluded(n.final),
    generic  |-> normalizeExclusionReason(n.generic) ]

InitLabels ==
  /\ pc = "label"
  /\ rawLabel \in RawLabels
  /\ normalized = <<>>
  /\ renormalized = <<>>
  /\ overviewData = DefaultOverview
  /\ excluded = <<>>
  /\ finalExcluded = <<>>
  /\ sankey = NoSankey
  /\ overviewTable = NoTable
  /\ categorizedExcluded = <<>>
  /\ categories = <<>>
  /\ extracted = <<>>
  /\ finalCategories = <<>>
  /\ console = <<>>
  /\ includeData = <<>>
  /\ loadedIncludeData = <<>>
  /\ clusterLinksData = NoClusterLinks
  /\ enrichedIncludeData = <<>>
  /\ loads = NoLoads
  /\ sections = <<>>
  /\ searchInput = ""
  /\ excList = <<>>

NormalizeLabel ==
  /\ pc = "label"
  /\ normalized' = normalizersOf(rawLabel)
  /\ pc' = "normalized"
  /\ UNCHANGED <<overviewData, excluded, finalExcluded, sankey, overviewTable,
                 categorizedExcluded, categories, extracted, finalCategories,
                 console, rawLabel, renormalized, enrichVars, loadVars, listVars>>

NormalizeAgain ==
  /\ pc = "normalized"
  /\ renormalized' = normalizersAgain(normalized)
  /\ pc' = "renormalized"
  /\ UNCHANGED <<overviewData, excluded, finalExcluded, sankey, overviewTable,
                 categorizedExcluded, categories, extracted, finalCategories,
                 console, rawLabel, normalized, enrichVars, loadVars, listVars>>

NextLabels == NormalizeLabel \/ NormalizeAgain

SpecLabels == InitLabels /\ [][NextLabels]_vars

\* the outcome contains both 'partially reproduced' and 'below'
IsPartiallyBelow(label) ==
  /\ Includes(ToLowerCase(label), "partially reproduced")
  /\ Includes(ToLowerCase(label), "below")

\* C12: a raw reproduction outcome that contains both 'partially reproduced'
\* and 'below' (in any case) is normalized to 'Partially Reproduced (Below
\* Threshold)' by the reproduction-outcome normalizers, also when it matches
\* a more generic rule.
C12_PartiallyBelowResolved ==
  (pc # "label" /\ IsPartiallyBelow(rawLabel))
    => /\ normalized.final = "Partially Reproduced (Below Threshold)"
       /\ normalized.generic = "Partially Reproduced (Below Threshold)"

\* C13: screening normalization is idempotent: getReadableExclusionReason
\* and each copy of the overview consolidation mapping return their own
\* result unchanged, and every canonical screening label is mapped to itself.
C13_ScreeningIdempotent ==
  /\ pc = "renormalized" =>
       /\ renormalized.readable = normalized.readable
       /\ renormalized.overview = normalized.overview
       /\ renormalized.sankey = normalized.sankey
       /\ renormalized.lists = normalized.lists
  /\ (pc # "label" /\ rawLabel \in ScreeningLabels) =>
       /\ normalized.readable = rawLabel
       /\ normalized.overview = rawLabel
       /\ normalized.sankey = rawLabel
       /\ normalized.lists = rawLabel

\* a raw code that the lookup rewrites, normalized twice
C13_Witness ==
  /\ pc = "renormalized"
  /\ rawLabel = "__EXR__no-fulltext"
  /\ normalized.readable = "no-fulltext"
  /\ normalized.overview = "no-fulltext"
  /\ renormalized.readable = "no-fulltext"
  /\ renormalized.overview = "no-fulltext"

\* the canonical outcomes of reproduced papers
ReproducedOutcomeLabels ==
  { "Fully Reproduced", "Partially Reproduced (Above Threshold)",
    "Partially Reproduced (Below Threshold)" }

RECURSIVE TrimStart(_)
TrimStart(s) ==
  IF s = "" THEN ""
  ELSE IF Head(s) = " " THEN TrimStart(Tail(s))
  ELSE s

RECURSIVE TrimEnd(_)
TrimEnd(s) ==
  IF s = "" THEN ""
  ELSE IF SubSeq(s, Len(s), Len(s)) = " " THEN TrimEnd(SubSeq(s, 1, Len(s) - 1))
  ELSE s

Trim(s) == TrimEnd(TrimStart(s))

\* substring(7)
Substring7(s) == SubSeq(s, 8, Len(s))

\* linksStr.split(/[,\n]/)
RECURSIVE SplitLinks(_, _)
SplitLinks(s, current) ==
  IF s = "" THEN << current >>
  ELSE IF Head(s) = "," \/ Head(s) = "\n"
    THEN << current >> \o SplitLinks(Tail(s), "")
  ELSE SplitLinks(Tail(s), current \o Head(s))

\* .map(l => l.trim()).filter(l => l && l !== 'N/A')
linksOf(linksStr) ==
  SelectSeq([i \in DOMAIN SplitLinks(linksStr, "") |-> Trim(SplitLinks(linksStr, "")[i])],
            LAMBDA l : l # "" /\ l # "N/A")

\* valStr.match(/^(N\/A|None|null|nan)$/i)
isPlaceholder(s) == ToLowerCase(s) \in { "n/a", "none", "null", "nan" }

\* row[key]: the value of a column, "" when the row has no such column
Column(row, key) ==
  IF \E i \in DOMAIN row : row[i].key = key
  THEN row[CHOOSE i \in DOMAIN row : row[i].key = key].value
  ELSE ""

\* the paper's identifier as the matching uses it: the prefix is tested on
\* the raw article_id, the remainder trimmed
rayyanId(paper) ==
  IF StartsWith(ToLowerCase(paper.article_id), "rayyan-")
    THEN Trim(Substring7(paper.article_id))
  ELSE Trim(paper.article_id)

\* a row identifier: trimmed first, then the prefix test
rowIdOf(val) ==
  IF StartsWith(ToLowerCase(Trim(val)), "rayyan-")
    THEN Trim(Substring7(Trim(val)))
  ELSE Trim(Trim(val))

\* idPatterns: the columns taken for an identifier when paper_id is missing
isIdColumn(k) ==
  \/ (Includes(ToLowerCase(k), "rayyan") /\ Includes(ToLowerCase(k), "id"))
  \/ (Includes(ToLowerCase(k), "paper") /\ Includes(ToLowerCase(k), "id"))
  \/ ToLowerCase(k) = "id"
  \/ ToLowerCase(k) = "paper id"

\* rowRayyanId: paper_id when truthy, else the first identifier column in
\* key order whose value gives a non-empty identifier
rowRayyanId(row) ==
  IF Column(row, "paper_id") # "" THEN rowIdOf(Column(row, "paper_id"))
  ELSE LET hits == SelectSeq(row, LAMBDA c : /\ isIdColumn(c.key)
                                             /\ c.value # ""
                                             /\ rowIdOf(c.value) # "")
       IN  IF hits = <<>> THEN "" ELSE rowIdOf(hits[1].value)

\* if (normalizedRowId && normalizedRowId === normalizedRayyanId)
rowMatches(paper, row) ==
  /\ rowRayyanId(row) # ""
  /\ Trim(rowRayyanId(row)) = Trim(rayyanId(paper))

ColPaperUrl == "Paper DOI / URL"
ColRepositoryUrl == "Repository URL"

\* enriched.excel_data?.[column]: "" when the paper has no excel_data or the
\* object has no such column
ExcelValue(paper, column) ==
  IF paper.hasExcel /\ column \in DOMAIN paper.excel_data
  THEN paper.excel_data[column] ELSE ""

\* if (!enriched.excel_data) enriched.excel_data = {}; enriched.excel_data[column] = value
WriteExcel(paper, column, value) ==
  [paper EXCEPT !.hasExcel = TRUE,
                !.excel_data = (column :> value)
                                 @@ (IF paper.hasExcel THEN paper.excel_data ELSE << >>)]

setUrl(paper, link) == [WriteExcel(paper, ColPaperUrl, link) EXCEPT !.url = link]

setRepositoryUrl(paper, link) ==
  [WriteExcel(paper, ColRepositoryUrl, link) EXCEPT !.repository_url = link]

\* a link of other_links that is skipped as a repository link
isRepositoryHost(link) ==
  Includes(link, "github.com") \/ Includes(link, "gitlab") \/ Includes(link, "bitbucket")

\* a link of other_links that is taken for the paper's URL
isPaperLink(link) ==
  /\ StartsWith(link, "http")
  /\ \/ Includes(link, "doi.org") \/ Includes(link, "arxiv.org")
     \/ Includes(link, "acm.org") \/ Includes(link, "ieee.org")
     \/ Includes(link, "semanticscholar.org") \/ Includes(link, "openreview.net")
     \/ Includes(link, "researchgate.net") \/ Includes(link, "ceur-ws.org")
     \/ Includes(link, ".pdf") \/ Includes(link, "pubmed")
     \/ (~Includes(link, "github") /\ ~Includes(link, "gitlab") /\ Includes(link, "."))

\* the paper link found in other_links, "" when there is none
paperLinkOfOtherLinks(row) ==
  LET linksStr == Trim(Column(row, "other_links"))
      found == SelectSeq(linksOf(linksStr),
                         LAMBDA l : ~isRepositoryHost(l) /\ isPaperLink(l))
  IN  IF /\ Column(row, "other_links") # "" /\ Column(row, "other_links") # "N/A"
         /\ linksStr # "" /\ ~isPlaceholder(linksStr) /\ Len(linksStr) > 3
         /\ found # <<>>
      THEN found[1] ELSE ""

\* doiUrlPatterns[n]
doiUrlPattern(n, k) ==
  CASE n = 1 -> Includes(ToLowerCase(k), "doi") /\ Includes(ToLowerCase(k), "url")
    [] n = 2 -> Includes(ToLowerCase(k), "doi")
    [] n = 3 -> /\ Includes(ToLowerCase(k), "url")
                /\ ~Includes(ToLowerCase(k), "repository")
                /\ ~Includes(ToLowerCase(k), "github")
    [] n = 4 -> Includes(ToLowerCase(k), "link") /\ ~Includes(ToLowerCase(k), "repository")

\* a column value that the URL fallback accepts
isUsableUrlValue(val) ==
  val # "" /\ Trim(val) # "" /\ ~isPlaceholder(Trim(val)) /\ Len(Trim(val)) > 3

\* the URL fallback: patterns in order, for each the first column in key
\* order that matches it and holds a usable value
RECURSIVE urlOfPatterns(_, _)
urlOfPatterns(row, n) ==
  IF n > 4 THEN ""
  ELSE LET hits == SelectSeq(row, LAMBDA c : doiUrlPattern(n, c.key)
                                             /\ isUsableUrlValue(c.value))
       IN  IF hits # <<>> THEN Trim(hits[1].value) ELSE urlOfPatterns(row, n + 1)

\* a URL block that writes whatever the paper already has
backfillUrl_Overwriting(enriched, row) ==
  IF paperLinkOfOtherLinks(row) # ""
    THEN setUrl(enriched, paperLinkOfOtherLinks(row))
  ELSE IF urlOfPatterns(row, 1) # "" THEN setUrl(enriched, urlOfPatterns(row, 1))
  ELSE enriched

\* the block under if (!enriched.url && !enriched.excel_data?.['Paper DOI / URL'])
backfillUrl(enriched, row) ==
  IF enriched.url # "" \/ ExcelValue(enriched, ColPaperUrl) # "" THEN enriched
  ELSE IF paperLinkOfOtherLinks(row) # ""
    THEN setUrl(enriched, paperLinkOfOtherLinks(row))
  ELSE IF urlOfPatterns(row, 1) # "" THEN setUrl(enriched, urlOfPatterns(row, 1))
  ELSE enriched

\* the codebase column, when it holds something that looks like a URL
repositoryOfCodebase(row) ==
  LET codebaseStr == Trim(Column(row, "codebase"))
  IN  IF /\ Column(row, "codebase") # "" /\ Column(row, "codebase") # "N/A"
         /\ codebaseStr # "" /\ ~isPlaceholder(codebaseStr)
         /\ \/ StartsWith(codebaseStr, "http") \/ Includes(codebaseStr, "github")
            \/ Includes(codebaseStr, "gitlab") \/ Includes(codebaseStr, "bitbucket")
      THEN codebaseStr ELSE ""

\* the first repository link of other_links, "" when there is none
repositoryOfOtherLinks(row) ==
  LET linksStr == Trim(Column(row, "other_links"))
      found == SelectSeq(linksOf(linksStr),
                         LAMBDA l : \/ Includes(l, "github.com") \/ Includes(l, "gitlab.com")
                                    \/ Includes(l, "bitbucket.org") \/ Includes(l, "gitlab"))
  IN  IF /\ Column(row, "other_links") # "" /\ Column(row, "other_links") # "N/A"
         /\ linksStr # "" /\ ~isPlaceholder(linksStr)
         /\ found # <<>>
      THEN found[1] ELSE ""

\* repoPatterns[n]
repoPattern(n, k) ==
  CASE n = 1 -> Includes(ToLowerCase(k), "github")
    [] n = 2 -> Includes(ToLowerCase(k), "repository")
    [] n = 3 -> Includes(ToLowerCase(k), "repo") /\ ~Includes(ToLowerCase(k), "doi")
    [] n = 4 -> Includes(ToLowerCase(k), "code") /\ Includes(ToLowerCase(k), "url")
    [] n = 5 -> Includes(ToLowerCase(k), "gitlab")

\* a column value that the repository fallback accepts
isUsableRepositoryValue(val) ==
  /\ val # "" /\ Trim(val) # "" /\ ~isPlaceholder(Trim(val))
  /\ \/ StartsWith(Trim(val), "http") \/ Includes(Trim(val), "github")
     \/ Includes(Trim(val), "gitlab") \/ Includes(Trim(val), "bitbucket")
     \/ (Includes(Trim(val), ".") /\ Len(Trim(val)) > 5)

\* the repository fallback.  For each pattern the columns are visited in key
\* order; the inner break leaves the column loop at the first accepted value.
RECURSIVE repositoryOfPatterns(_, _)
repositoryOfPatterns(row, n) ==
  IF n > 5 THEN ""
  ELSE LET hits == SelectSeq(row, LAMBDA c : repoPattern(n, c.key)
                                             /\ isUsableRepositoryValue(c.value))
       IN  IF hits # <<>> THEN Trim(hits[1].value)
           ELSE repositoryOfPatterns(row, n + 1)

\* the block under if (!enriched.repository_url && !enriched.excel_data?.['Repository URL'])
backfillRepositoryUrl(enriched, row) ==
  IF enriched.repository_url # "" \/ ExcelValue(enriched, ColRepositoryUrl) # ""
    THEN enriched
  ELSE IF repositoryOfCodebase(row) # ""
    THEN setRepositoryUrl(enriched, repositoryOfCodebase(row))
  ELSE IF repositoryOfOtherLinks(row) # ""
    THEN setRepositoryUrl(enriched, repositoryOfOtherLinks(row))
  ELSE IF repositoryOfPatterns(row, 1) # ""
    THEN setRepositoryUrl(enriched, repositoryOfPatterns(row, 1))
  ELSE enriched

\* the body run for the matching row of a sheet
applyRow(enriched, row) == backfillRepositoryUrl(backfillUrl(enriched, row), row)

\* for (const row of sheet): the first matching row is applied, then break
enrichFromSheet(paper, enriched, sheet) ==
  LET hits == SelectSeq(sheet, LAMBDA row : rowMatches(paper, row))
  IN  IF hits = <<>> THEN enriched ELSE applyRow(enriched, hits[1])

\* for (const sheetName in clusterLinksData): every sheet is searched, the
\* break after a match leaves only the row loop
RECURSIVE enrichFromSheets(_, _, _)
enrichFromSheets(paper, enriched, sheets) ==
  IF sheets = <<>> THEN enriched
  ELSE enrichFromSheets(paper, enrichFromSheet(paper, enriched, Head(sheets)),
                        Tail(sheets))

\* papers.map callback: enriched = {...paper}, returned after the search
enrichPaper(paper, clusterData) ==
  IF rayyanId(paper) = "" THEN paper
  ELSE enrichFromSheets(paper, paper, clusterData)

\* what the input paper holds after the call: the spread copies the reference
\* to excel_data, so a column written through `enriched` is written on the
\* object the input paper refers to; an excel_data object created by the
\* call belongs to the copy alone
paperAfterEnrich(paper, clusterData) ==
  IF paper.hasExcel
  THEN [paper EXCEPT !.excel_data = enrichPaper(paper, clusterData).excel_data]
  ELSE paper

\* enrichPapersWithClusterLinks(papers, clusterLinksData); the dataset may be
\* absent (null), and the papers are then returned as they are
enrichPapersWithClusterLinks(papers, hasCluster, clusterData) ==
  IF ~hasCluster THEN papers
  ELSE [i \in DOMAIN papers |-> enrichPaper(papers[i], clusterData)]

(***************************************************************************)
(* enrichPapersWithClusterLinks applied to one loaded record and bounded   *)
(* cross-reference data (specification SpecEnrich).                        *)
(***************************************************************************)
Paper(id, url, repository, hasExcel, excel) ==
  [article_id |-> id, url |-> url, repository_url |-> repository,
   hasExcel |-> hasExcel, excel_data |-> excel]

Col(key, value) == [key |-> key, value |-> value]

PaperIds ==
  { "rayyan-242083763", "242083763", " rayyan-242083763", "Rayyan-242083763 ",
    "rayyan-999", "" }

PaperUrls == { "", "https://doi.org/10.1/kept" }

PaperRepositories == { "", "https://github.com/kept/repo" }

\* excel_data of a loaded record: absent, an object without the two link
\* columns, an object that has the paper's URL
PaperExcels ==
  { [hasExcel |-> FALSE, excel_data |-> << >>],
    [hasExcel |-> TRUE, excel_data |-> ("Title" :> "A paper")],
    [hasExcel |-> TRUE,
     excel_data |-> ("Title" :> "A paper") @@ (ColPaperUrl :> "https://doi.org/10.1/excel")] }

LoadedPapers ==
  { Paper(id, u, r, e.hasExcel, e.excel_data) :
      id \in PaperIds, u \in PaperUrls, r \in PaperRepositories, e \in PaperExcels }

ClusterRows ==
  { << Col("paper_id", "242083763"),
       Col("other_links", "https://doi.org/10.1/new"),
       Col("codebase", "https://github.com/new/repo") >>,
    << Col("paper_id", "rayyan-242083763"),
       Col("other_links", "https://github.com/new/repo, https://arxiv.org/abs/1"),
       Col("codebase", "N/A") >>,
    << Col("paper_id", " rayyan-242083763"),
       Col("other_links", "https://doi.org/10.1/new"),
       Col("codebase", "https://github.com/new/repo") >>,
    << Col("paper_id", " 242083763 "),
       Col("other_links", "N/A"),
       Col("codebase", "Yes") >>,
    << Col("paper_id", "242083763"),
       Col("DOI", "10.1/new"),
       Col("GitHub", "github.com/new/repo") >>,
    << Col("Rayyan ID", "rayyan-242083763"),
       Col("other_links", "nan"),
       Col("Code URL", "https://gitlab.com/new/repo") >>,
    << Col("paper_id", "rayyan-999"),
       Col("other_links", "https://doi.org/10.1/other"),
       Col("codebase", "https://github.com/other/repo") >>,
    << Col("paper_id", "111"),
       Col("other_links", "https://doi.org/10.1/none"),
       Col("codebase", "") >> }

\* one sheet with one row; two rows in a sheet; two sheets
ClusterSheets ==
  { << << r >> >> : r \in ClusterRows }
  \cup { << << r1, r2 >> >> : r1 \in ClusterRows, r2 \in ClusterRows }
  \cup { << << r1 >>, << r2 >> >> : r1 \in ClusterRows, r2 \in ClusterRows }

ClusterLinkChoices ==
  { NoClusterLinks } \cup { [present |-> TRUE, sheets |-> d] : d \in ClusterSheets }

InitEnrich ==
  /\ pc = "loadedData"
  /\ \E p \in LoadedPapers :
       /\ includeData = << p >>
       /\ loadedIncludeData = << p >>
  /\ clusterLinksData \in ClusterLinkChoices
  /\ enrichedIncludeData = <<>>
  /\ loads = NoLoads
  /\ sections = <<>>
  /\ searchInput = ""
  /\ excList = <<>>
  /\ overviewData = DefaultOverview
  /\ excluded = <<>>
  /\ finalExcluded = <<>>
  /\ sankey = NoSankey
  /\ overviewTable = NoTable
  /\ categorizedExcluded = <<>>
  /\ categories = <<>>
  /\ extracted = <<>>
  /\ finalCategories = <<>>
  /\ console = <<>>
  /\ rawLabel = ""
  /\ normalized = <<>>
  /\ renormalized = <<>>

\* init: enrichedIncludeData = clusterLinksData ? await enrichPapers...(includeData, clusterLinksData) : includeData
EnrichIncludeData ==
  /\ pc = "loadedData"
  /\ enrichedIncludeData' =
       enrichPapersWithClusterLinks(includeData, clusterLinksData.present,
                                    clusterLinksData.sheets)
  /\ includeData' =
       IF clusterLinksData.present
       THEN [i \in DOMAIN includeData |->
               paperAfterEnrich(includeData[i], clusterLinksData.sheets)]
       ELSE includeData
  /\ pc' = "enriched"
  /\ UNCHANGED <<overviewData, excluded, finalExcluded, sankey, overviewTable,
                 categorizedExcluded, categories, extracted, finalCategories,
                 console, labelVars, loadedIncludeData, clusterLinksData,
                 loadVars, listVars>>

NextEnrich == EnrichIncludeData

SpecEnrich == InitEnrich /\ [][NextEnrich]_vars

\* C15: enrichPapersWithClusterLinks is pure with respect to its input
\* records: after the call every input record, the excel_data it refers to
\* included, has the content it had before the call.
C15_InputRecordsUnchanged ==
  pc # "loadedData" => includeData = loadedIncludeData

\* C16: enrichPapersWithClusterLinks only backfills: a url, respectively a
\* repository_url, that the input paper already has is the same on the
\* returned paper, and the cross-reference data is never modified.
C16_BackfillOnly ==
  /\ [](pc = "enriched" =>
          \A i \in DOMAIN loadedIncludeData :
            /\ loadedIncludeData[i].url # ""
                 => enrichedIncludeData[i].url = loadedIncludeData[i].url
            /\ loadedIncludeData[i].repository_url # ""
                 => enrichedIncludeData[i].repository_url
                      = loadedIncludeData[i].repository_url)
  /\ [][clusterLinksData' = clusterLinksData]_vars

\* a paper that has its url and lacks its repository_url meets a row that
\* carries both: the repository is filled in and the url kept
C16_Witness ==
  /\ pc = "enriched"
  /\ loadedIncludeData[1].url = "https://doi.org/10.1/kept"
  /\ loadedIncludeData[1].repository_url = ""
  /\ enrichedIncludeData[1].url = "https://doi.org/10.1/kept"
  /\ enrichedIncludeData[1].repository_url = "https://github.com/new/repo"
  /\ clusterLinksData.present
  /\ Column(clusterLinksData.sheets[1][1], "other_links") = "https://doi.org/10.1/new"

\* an identifier with its surrounding blanks and its leading 'rayyan-'
\* prefix taken away
StrippedId(id) ==
  IF StartsWith(ToLowerCase(Trim(id)), "rayyan-")
    THEN Trim(Substring7(Trim(id)))
  ELSE Trim(id)

\* the cross-reference data is one row that names its paper in paper_id and
\* carries a paper link and a repository link
OneLinkedRow ==
  /\ clusterLinksData.present
  /\ Len(clusterLinksData.sheets) = 1
  /\ Len(clusterLinksData.sheets[1]) = 1
  /\ Column(clusterLinksData.sheets[1][1], "paper_id") # ""
  /\ Column(clusterLinksData.sheets[1][1], "other_links") = "https://doi.org/10.1/new"
  /\ Column(clusterLinksData.sheets[1][1], "codebase") = "https://github.com/new/repo"

\* the loaded paper has neither link, in its fields or in its excel_data
LacksLinks(paper) ==
  /\ paper.url = "" /\ paper.repository_url = ""
  /\ ExcelValue(paper, ColPaperUrl) = "" /\ ExcelValue(paper, ColRepositoryUrl) = ""

\* C17: a paper and a cross-reference row are the same record exactly when
\* their identifiers are equal once the leading 'rayyan-' prefix is stripped
\* and the blanks trimmed on both sides; the missing url and repository_url
\* of a matched paper are backfilled from the row, an unmatched paper is
\* returned as it was.
C17_MatchOnStrippedIds ==
  (pc = "enriched" /\ OneLinkedRow /\ LacksLinks(loadedIncludeData[1])) =>
    IF /\ StrippedId(loadedIncludeData[1].article_id) # ""
       /\ StrippedId(loadedIncludeData[1].article_id)
            = StrippedId(Column(clusterLinksData.sheets[1][1], "paper_id"))
    THEN /\ enrichedIncludeData[1].url = "https://doi.org/10.1/new"
         /\ enrichedIncludeData[1].repository_url = "https://github.com/new/repo"
    ELSE enrichedIncludeData[1] = loadedIncludeData[1]

(***************************************************************************)
(* The same entries of the breakdown in another key order (specification   *)
(* Spec): Object.entries enumerates the keys in insertion order, so        *)
(* another key order of the document is another order of the entries.      *)
(***************************************************************************)
\* the entries with those at i and i + 1 exchanged
SwapEntries(entries, i) ==
  [k \in DOMAIN entries |->
     IF k = i THEN entries[i + 1]
     ELSE IF k = i + 1 THEN entries[i]
     ELSE entries[k]]

\* the document that lists the same entries with two neighbours exchanged
Reordered(data, i) ==
  [data EXCEPT
     !.rayyan_screening.excluded_out_of_scope.breakdown.individual_criteria_counts
       = SwapEntries(@, i)]

CategoryOrder(entries) == [k \in DOMAIN entries |-> entries[k].reason]

TopCategories(sk) == { n.name : n \in ExclusionNodes(sk) }

\* C21: two breakdowns with the same category-to-count entries in different
\* key order give the same order of the consolidated categories and the same
\* set of top-8 categories in the flow diagram, equal counts included.
C21_KeyOrderIndependent ==
  pc = "overview" =>
    \A i \in 1..(Len(breakdownOf(overviewData)) - 1) :
      /\ CategoryOrder(sortedEntries_createSankeyDiagram(Reordered(overviewData, i)))
           = CategoryOrder(sortedEntries_createSankeyDiagram(overviewData))
      /\ CategoryOrder(populateOverview(Reordered(overviewData, i)).rows)
           = CategoryOrder(overviewTable.rows)
      /\ TopCategories(createSankeyDiagram(Reordered(overviewData, i)))
           = TopCategories(sankey)

(***************************************************************************)
(* The analyzer's combination counts (specification SpecRecords).  The     *)
(* counts are kept as the analyzer's report describes them, over the       *)
(* criteria extractExclusionCriteria and getReadableExclusionReason give   *)
(* for each record: a record with two or more categories adds one to the   *)
(* entry whose key is its categories in sorted order.                      *)
(***************************************************************************)
\* the characters of the category names, in code-point order
CodePointOrder ==
  " (),-./0123456789ABCDEFGHIJKLMNOPQRSTUVWXYZ_abcdefghijklmnopqrstuvwxyz"

\* the place of a character in that order
CodePointRank(c) ==
  CHOOSE i \in 1..Len(CodePointOrder) : SubSeq(CodePointOrder, i, i) = c

\* a < b for strings: by code points, a proper prefix first
RECURSIVE StringLess(_, _)
StringLess(a, b) ==
  IF b = "" THEN FALSE
  ELSE IF a = "" THEN TRUE
  ELSE IF Head(a) = Head(b) THEN StringLess(Tail(a), Tail(b))
  ELSE CodePointRank(Head(a)) < CodePointRank(Head(b))

\* the categories of a record in the order its annotation entries give them,
\* each once
RECURSIVE FirstOccurrences(_, _)
FirstOccurrences(seen, q) ==
  IF q = <<>> THEN seen
  ELSE FirstOccurrences(IF Head(q) \in Range(seen) THEN seen
                        ELSE Append(seen, Head(q)),
                        Tail(q))

categoriesInEntryOrder(article) ==
  LET criteria == extractExclusionCriteria(article)
  IN  FirstOccurrences(<<>>, [i \in DOMAIN criteria |->
                                getReadableExclusionReason(criteria[i])])

InsertSorted(sorted, s) ==
  LET before == { i \in DOMAIN sorted : StringLess(sorted[i], s) }
      k == Cardinality(before)
  IN  SubSeq(sorted, 1, k) \o <<s>> \o SubSeq(sorted, k + 1, Len(sorted))

RECURSIVE SortStrings(_)
SortStrings(q) ==
  IF q = <<>> THEN <<>>
  ELSE InsertSorted(SortStrings(SubSeq(q, 1, Len(q) - 1)), q[Len(q)])

\* a key that keeps the order of the annotation entries
combinationKey_EntryOrder(article) == categoriesInEntryOrder(article)

\* the combination key of a record: its categories, sorted
combinationKey(article) == SortStrings(categoriesInEntryOrder(article))

\* combination_counts[key] += 1
IncrementCombination(counts, key) ==
  IF \E i \in DOMAIN counts : counts[i].key = key
  THEN [i \in DOMAIN counts |->
          IF counts[i].key = key
          THEN [counts[i] EXCEPT !.count = @ + 1]
          ELSE counts[i]]
  ELSE Append(counts, [key |-> key, count |-> 1])

RECURSIVE countCombinations(_, _)
countCombinations(counts, records) ==
  IF records = <<>> THEN counts
  ELSE countCombinations(
         IF Len(categoriesInEntryOrder(Head(records))) >= 2
         THEN IncrementCombination(counts, combinationKey(Head(records)))
         ELSE counts,
         Tail(records))

combination_counts(records) == countCombinations(<<>>, records)

StrictlySorted(q) ==
  \A i \in 1..(Len(q) - 1) : StringLess(q[i], q[i + 1])

CombinationEntries(counts, key) ==
  { i \in DOMAIN counts : counts[i].key = key }

\* C22: a record with two or more canonical categories is counted in every
\* one of its categories and once in multi_criterion_count, and adds one to
\* exactly one combination entry, keyed by its categories in sorted order, so
\* that records with the same categories in any order of their annotation
\* entries add to the same entry.
C22_CombinationKeySorted ==
  pc = "categorized" =>
    LET counts == combination_counts(excluded)
        multi  == { i \in DOMAIN excluded :
                      Cardinality(CategoriesOf(excluded[i])) >= 2 }
    IN  /\ multi_criterion_count(categories, excluded) = Cardinality(multi)
        /\ SumCounts(counts) = Cardinality(multi)
        /\ \A i \in multi :
             LET key == combinationKey(excluded[i])
             IN  /\ \A c \in CategoriesOf(excluded[i]) :
                      Occurrences(bucketOf(categories, c), excluded[i]) = 1
                 /\ Range(key) = CategoriesOf(excluded[i])
                 /\ StrictlySorted(key)
                 /\ Cardinality(CombinationEntries(counts, key)) = 1
                 /\ \A e \in CombinationEntries(counts, key) :
                      counts[e].count =
                        Cardinality({ j \in multi :
                                        CategoriesOf(excluded[j])
                                          = CategoriesOf(excluded[i]) })

\* two records with the same two categories, set in opposite entry orders
C22_Witness ==
  /\ pc = "categorized"
  /\ Len(excluded) = 2
  /\ excluded[1].customizations = << NoCodebase, NoEval >>
  /\ excluded[2].customizations = << NoEval, NoCodebase >>
  /\ multi_criterion_count(categories, excluded) = 2
  /\ combination_counts(excluded)
       = << [key |-> << "No codebase/implementation", "No evaluation" >>,
             count |-> 2] >>

(***************************************************************************)
(* init (specification SpecLoad).  The seven loadJSON promises settle in   *)
(* any order; init waits for Promise.all and then either enriches the      *)
(* records and populates the four sections in one run, or reports the      *)
(* error.  The variables of the documents hold what the server would       *)
(* deliver; `loads` tells which of them have arrived.                      *)
(***************************************************************************)
RequiredDocuments ==
  { "data/inclusion_exclusion_criteria.json",
    "data/screening_overview_enriched.json",
    "data/include.json",
    "data/exclude.json",
    "data/final_include.json",
    "data/final_exclude.json" }

ClusterLinksDocument == "data/cluster_papers_with_links.json"

Documents == RequiredDocuments \cup { ClusterLinksDocument }

\* the load of the cross-reference data, had it been awaited like the others
awaitedPromise_NoCatch(l, doc) == l[doc]

\* the promise init hands to Promise.all for a document: the load of the
\* cross-reference data carries .catch(() => null), so its rejection is a
\* fulfilment with null
awaitedPromise(l, doc) ==
  IF doc = ClusterLinksDocument /\ l[doc] = "rejected" THEN "fulfilled"
  ELSE l[doc]

\* Promise.all: rejected as soon as one promise is, fulfilled when all are
promiseAll(l) ==
  IF \E doc \in Documents : awaitedPromise(l, doc) = "rejected" THEN "rejected"
  ELSE IF \A doc \in Documents : awaitedPromise(l, doc) = "fulfilled"
       THEN "fulfilled"
  ELSE "pending"

\* the value init binds to clusterLinksData is truthy
hasClusterLinks(l) ==
  l[ClusterLinksDocument] = "fulfilled" /\ clusterLinksData.present

AllSections ==
  << "populateCriteria", "populateOverview", "populatePaperLists",
     "populateFinalPaperLists" >>

ErrorLoadingData == "Error loading data. See console for details."

\* records of include.json: one that lacks its links, one that has them
IncludeDocuments ==
  { << Paper("rayyan-242083763", "", "", FALSE, << >>) >>,
    << Paper("rayyan-242083763", "https://doi.org/10.1/kept",
             "https://github.com/kept/repo", FALSE, << >>) >> }

ClusterLinksServed ==
  [present |-> TRUE,
   sheets  |-> << << << Col("paper_id", "242083763"),
                        Col("other_links", "https://doi.org/10.1/new"),
                        Col("codebase", "https://github.com/new/repo") >> >> >>]

InitLoad ==
  /\ pc = "loading"
  /\ loads = [doc \in Documents |-> "pending"]
  /\ sections = <<>>
  /\ console = <<>>
  /\ \E papers \in IncludeDocuments :
       /\ includeData = papers
       /\ loadedIncludeData = papers
  /\ clusterLinksData = ClusterLinksServed
  /\ enrichedIncludeData = <<>>
  /\ overviewData = DefaultOverview
  /\ excluded = <<>>
  /\ finalExcluded = << FinalPaper("rayyan-201", "Missing Code", NoExcel) >>
  /\ sankey = NoSankey
  /\ overviewTable = NoTable
  /\ categorizedExcluded = <<>>
  /\ categories = <<>>
  /\ extracted = <<>>
  /\ finalCategories = <<>>
  /\ searchInput = ""
  /\ excList = <<>>
  /\ rawLabel = ""
  /\ normalized = <<>>
  /\ renormalized = <<>>

\* loadJSON(path) settles: fulfilled with the parsed document, or rejected
\* (fetch fails, the response is not ok, or the body is not JSON)
LoadSettles ==
  /\ \E doc \in Documents, outcome \in { "fulfilled", "rejected" } :
       /\ loads[doc] = "pending"
       /\ loads' = [loads EXCEPT ![doc] = outcome]
  /\ UNCHANGED <<pc, overviewData, excluded, finalExcluded, sankey,
                 overviewTable, categorizedExcluded, categories, extracted,
                 finalCategories, console, labelVars, enrichVars, sections,
                 listVars>>

\* the await of Promise.all returns: the body of the try block after it
InitPopulates ==
  /\ pc = "loading"
  /\ promiseAll(loads) = "fulfilled"
  /\ enrichedIncludeData' =
       enrichPapersWithClusterLinks(includeData, hasClusterLinks(loads),
                                    clusterLinksData.sheets)
  /\ includeData' =
       IF hasClusterLinks(loads)
       THEN [i \in DOMAIN includeData |->
               paperAfterEnrich(includeData[i], clusterLinksData.sheets)]
       ELSE includeData
  /\ sankey' = createSankeyDiagram(overviewData)
  /\ overviewTable' = populateOverview(overviewData)
  /\ categorizedExcluded' =
       categorizeExcludedPapersFromConsolidatedData(overviewData, excluded)
  /\ excList' =
       excludedPapersList(
         categorizeExcludedPapersFromConsolidatedData(overviewData, excluded))
  /\ finalCategories' = categorizeFinalExcludedPapers(finalExcluded)
  /\ sections' = AllSections
  /\ pc' = "populated"
  /\ UNCHANGED <<overviewData, excluded, finalExcluded, categories, extracted,
                 console, labelVars, loadedIncludeData, clusterLinksData,
                 loads, searchInput>>

\* the await of Promise.all throws: catch (err) { console.error; alert }
InitCatches ==
  /\ pc = "loading"
  /\ promiseAll(loads) = "rejected"
  /\ console' = Append(console, ErrorLoadingData)
  /\ pc' = "failed"
  /\ UNCHANGED <<overviewData, excluded, finalExcluded, sankey, overviewTable,
                 categorizedExcluded, categories, extracted, finalCategories,
                 labelVars, enrichVars, loadVars, listVars>>

NextLoad == LoadSettles \/ InitPopulates \/ InitCatches

SpecLoad == InitLoad /\ [][NextLoad]_vars

RequiredFailed == \E doc \in RequiredDocuments : loads[doc] = "rejected"

OnlyClusterLinksFailed ==
  /\ \A doc \in RequiredDocuments : loads[doc] = "fulfilled"
  /\ loads[ClusterLinksDocument] = "rejected"

Absent == "<absent>"

\* a screening question is answered in every row that has answers at all
ScreeningAnswers == { "No", "Yes" }

YesNoAnswers == { Absent, "No", "Yes" }

QuantEvalAnswers == { Absent, "No", "Yes", "N" }

ReproStatusAnswers ==
  { Absent, "No", "Yes", "Failed", "Partially - below threshold",
    "Partial (above threshold)", "Not reproduced" }

\* the columns a spreadsheet row carries: a column left blank is not a key
FilledColumns(row) == [c \in { c \in DOMAIN row : row[c] # Absent } |-> row[c]]

AnswerProfiles ==
  { NoExcel } \cup
  { FilledColumns((ColQuantEval :> q) @@ (ColOffTopic :> o) @@ (ColBackground :> b)
                  @@ (ColResearch :> r) @@ (ColFulltext :> f) @@ (ColCodebase :> c)
                  @@ (ColReproducible :> a) @@ (ColReproStatus :> s)) :
      q \in QuantEvalAnswers, o \in ScreeningAnswers, b \in ScreeningAnswers,
      r \in ScreeningAnswers, f \in ScreeningAnswers, c \in YesNoAnswers,
      a \in YesNoAnswers, s \in ReproStatusAnswers }

InitInfer ==
  /\ pc = "final"
  /\ \E e \in AnswerProfiles : finalExcluded = << FinalPaper(ArticleIds[1], "", e) >>
  /\ overviewData = DefaultOverview
  /\ excluded = <<>>
  /\ sankey = NoSankey
  /\ overviewTable = NoTable
  /\ categorizedExcluded = <<>>
  /\ categories = <<>>
  /\ extracted = <<>>
  /\ finalCategories = <<>>
  /\ console = <<>>
  /\ includeData = <<>>
  /\ loadedIncludeData = <<>>
  /\ clusterLinksData = NoClusterLinks
  /\ enrichedIncludeData = <<>>
  /\ loads = NoLoads
  /\ sections = <<>>
  /\ searchInput = ""
  /\ excList = <<>>
  /\ rawLabel = ""
  /\ normalized = <<>>
  /\ renormalized = <<>>

NextInfer == CategorizeFinalExcludedPapers

SpecInfer == InitInfer /\ [][NextInfer]_vars

\* the rules in the order the claim lists them, each with whether it matches
\* the answers and the category it decides
RulesInOrder(excel) ==
  << [matches  |-> Answer(excel, ColQuantEval) \in { "no", "n", "false", "0" },
      category |-> "No quantitative evaluation"],
     [matches  |-> Answer(excel, ColOffTopic) = "no",
      category |-> "Not Attempted - Off Topic"],
     [matches  |-> Answer(excel, ColBackground) = "no",
      category |-> "Not Attempted - Background Article"],
     [matches  |-> Answer(excel, ColResearch) = "no",
      category |-> "Not Attempted - Not a Research Article"],
     [matches  |-> Answer(excel, ColFulltext) = "no",
      category |-> "Not Attempted - No Fulltext"],
     [matches  |-> Answer(excel, ColCodebase) = "no",
      category |-> "Missing Code"],
     [matches  |-> /\ Includes(Answer(excel, ColReproStatus), "partial")
                   /\ Includes(Answer(excel, ColReproStatus), "below"),
      category |-> "Partially Reproduced (Below Threshold)"],
     [matches  |-> /\ Includes(Answer(excel, ColReproStatus), "partial")
                   /\ Includes(Answer(excel, ColReproStatus), "above"),
      category |-> "Partially Reproduced (Above Threshold)"],
     [matches  |-> /\ Answer(excel, ColReproducible) = "yes"
                   /\ \/ Answer(excel, ColReproStatus) = "no"
                      \/ Includes(Answer(excel, ColReproStatus), "failed"),
      category |-> "Has All Artifacts but Failed"],
     [matches  |-> \/ /\ Answer(excel, ColReproducible) = "no"
                      /\ Answer(excel, ColCodebase) = "yes"
                   \/ Answer(excel, ColReproStatus) = "no"
                   \/ Includes(Answer(excel, ColReproStatus), "not reproduced"),
      category |-> "Missing Some Artifacts (not code, e.g. data, model, etc.)"] >>

MatchingRules(rules) == { i \in DOMAIN rules : rules[i].matches }

FirstMatchingCategory(excel) ==
  LET rules    == RulesInOrder(excel)
      matching == MatchingRules(rules)
  IN  IF matching = {}
      THEN "Missing Some Artifacts (not code, e.g. data, model, etc.)"
      ELSE rules[CHOOSE i \in matching : \A j \in matching : i <= j].category

PartialCategories ==
  { "Partially Reproduced (Below Threshold)",
    "Partially Reproduced (Above Threshold)" }

CategoriesHolding(cats, paper) ==
  { i \in DOMAIN cats : \E k \in DOMAIN cats[i].papers : cats[i].papers[k] = paper }

\* C24: a final-excluded paper without reproduction_category is categorized by
\* the first rule, in the listed order, that matches its answers, and by the
\* default 'Missing Some Artifacts (not code, e.g. data, model, etc.)' when no
\* rule matches or excel_data is absent: the paper stands in that category
\* and in no other (a paper decided to be partially reproduced is in none,
\* since that category is not an excluded one).
C24_FirstMatchingRule ==
  pc = "finalCategorized" =>
    \A k \in DOMAIN finalExcluded :
      LET paper    == finalExcluded[k]
          category == FirstMatchingCategory(paper.excel_data)
          holding  == CategoriesHolding(finalCategories, paper)
      IN  paper.reproduction_category = "" =>
            /\ inferredReason(paper.excel_data) = category
            /\ IF category \in PartialCategories
               THEN holding = {}
               ELSE /\ holding # {}
                    /\ \A i \in holding : finalCategories[i].reason = category

\* two rules match (no quantitative evaluation, no codebase) and the earlier
\* one decides
C24_Witness ==
  /\ pc = "finalCategorized"
  /\ Len(finalExcluded) = 1
  /\ finalExcluded[1].reproduction_category = ""
  /\ Cardinality(MatchingRules(RulesInOrder(finalExcluded[1].excel_data))) >= 2
  /\ Answer(finalExcluded[1].excel_data, ColQuantEval) = "no"
  /\ Answer(finalExcluded[1].excel_data, ColCodebase) = "no"
  /\ Len(finalCategories) = 1
  /\ finalCategories[1].reason = "No quantitative evaluation"


(***************************************************************************)
(* The overview breakdown computed from the excluded records themselves.   *)
(* The exclusion analyzer is documented by its README: it counts, for each *)
(* criterion name of its table, the articles flagged with it; a code the   *)
(* table does not list stays under its raw key, and articles without a     *)
(* criterion are counted apart from the individual criteria.               *)
(***************************************************************************)
\* README, "Exclusion Criteria Categories": Code -> Human-Readable Name
HumanReadableName(code) ==
  CASE code = "__EXR__no-codebase"        -> "No codebase/implementation"
    [] code = "__EXR__off-topic"          -> "Off-topic/Not neuro-symbolic"
    [] code = "__EXR__survey"             -> "Survey/review paper"
    [] code = "__EXR__background article" -> "Background article"
    [] code = "__EXR__not-research"       -> "Not research paper"
    [] code = "__EXR__no-eval"            -> "No evaluation"
    [] code = "__EXR__duplicate"          -> "Duplicate"
    [] code = "__EXR__review"             -> "Review paper"
    [] code = "__EXR__no-fulltext"        -> "No fulltext"
    [] code = "__EXR__not-in-english"     -> "Not in English"
    [] code = "__EXR__foreign language"   -> "Foreign language"
    [] OTHER                              -> code

\* the articles of one record set under each criterion name, an article once
\* under a name
RECURSIVE namedCriteria(_, _, _)
namedCriteria(cats, criteria, article) ==
  IF criteria = <<>> THEN cats
  ELSE namedCriteria(addToCategory(cats, HumanReadableName(Head(criteria)), article),
                     Tail(criteria), article)

RECURSIVE articlesByCriterion(_, _)
articlesByCriterion(cats, records) ==
  IF records = <<>> THEN cats
  ELSE articlesByCriterion(
         namedCriteria(cats, extractExclusionCriteria(Head(records)), Head(records)),
         Tail(records))

\* individual_criteria_counts of the enriched overview
individual_criteria_counts(records) ==
  LET byName == articlesByCriterion(<<>>, records)
  IN  [i \in DOMAIN byName |->
         [reason |-> byName[i].reason, count |-> Len(byName[i].papers)]]

BackgroundArticle == Flag("\"__EXR__background article\"", StringValue("1"))
NoFulltext == Flag("\"__EXR__no-fulltext\"", StringValue("1"))
LegacyC    == Flag("\"__EXR__c\"", StringValue("1"))

AnalyzedFlagLists ==
  { << >>, << NoCodebase >>, << NoEval >>, << Survey >>,
    << Survey, BackgroundArticle >>, << NoFulltext >>, << LegacyC >>,
    << NoCodebase, NoEval >> }

RECURSIVE AnalyzedFlagListSeqs(_)
AnalyzedFlagListSeqs(n) ==
  IF n = 0 THEN { <<>> }
  ELSE { Append(q, l) : q \in AnalyzedFlagListSeqs(n - 1), l \in AnalyzedFlagLists }

AnalyzedRecordSets ==
  { [i \in 1..Len(q) |-> Article(ArticleIds[i], q[i])] :
      q \in UNION { AnalyzedFlagListSeqs(n) : n \in 0..MaxRecords } }

InitAnalyzed ==
  /\ pc = "loaded"
  /\ excluded \in AnalyzedRecordSets \cup { <<a>> : a \in TableArticles }
  /\ overviewData = OverviewDocument(individual_criteria_counts(excluded),
                                     Len(excluded), 516, 0)
  /\ finalExcluded = <<>>
  /\ sankey = NoSankey
  /\ overviewTable = NoTable
  /\ categorizedExcluded = <<>>
  /\ categories = <<>>
  /\ extracted = <<>>
  /\ finalCategories = <<>>
  /\ console = <<>>
  /\ includeData = <<>>
  /\ loadedIncludeData = <<>>
  /\ clusterLinksData = NoClusterLinks
  /\ enrichedIncludeData = <<>>
  /\ loads = NoLoads
  /\ sections = <<>>
  /\ searchInput = ""
  /\ excList = <<>>
  /\ rawLabel = ""
  /\ normalized = <<>>
  /\ renormalized = <<>>

SpecAnalyzed == InitAnalyzed /\ [][Next]_vars

ListsPopulated == pc \in { "lists", "again" }

\* C25: every excluded paper handed to
\* categorizeExcludedPapersFromConsolidatedData stands in the papers list of
\* at least one returned category, a paper without a set criterion included.
C25_EveryPaperListed ==
  ListsPopulated =>
    \A k \in DOMAIN excluded :
      CategoriesHolding(categorizedExcluded, excluded[k]) # {}

\* C26: with the breakdown computed from the same excluded records, the count
\* in the badge of every drop-down equals the number of papers listed in it.
C26_BadgeCountsPapers ==
  ListsPopulated =>
    \A i \in DOMAIN excList : excList[i].badge = Len(excList[i].items)


\* the category of the breakdown under which the consolidation puts a criterion
\* the analyzer counted, and the category under which the paper is bucketed
ConsolidatedCategory(criterion) ==
  consolidatedReason_fromConsolidatedData(HumanReadableName(criterion))

ReturnedReasons == { categorizedExcluded[i].reason : i \in DOMAIN categorizedExcluded }

\* C27: the two normalization paths agree: for every criterion code of an
\* excluded record, the README name of the code (the raw code itself when the
\* README does not list it) passed through the overview consolidation gives
\* the category getReadableExclusionReason gives for the raw code, so the
\* returned category of the criterion is the one that lists the paper.
C27_PathsAgree ==
  ListsPopulated =>
    \A k \in DOMAIN excluded :
      \A n \in DOMAIN extractExclusionCriteria(excluded[k]) :
        LET criterion == extractExclusionCriteria(excluded[k])[n]
        IN  /\ ConsolidatedCategory(criterion) \in ReturnedReasons
            /\ ConsolidatedCategory(criterion) = getReadableExclusionReason(criterion)
            /\ \E i \in CategoriesHolding(categorizedExcluded, excluded[k]) :
                 categorizedExcluded[i].reason = ConsolidatedCategory(criterion)


\* the positions at which a paper stands in the lists of the result
ListingsOf(cats, paper) ==
  { <<i, k>> \in (DOMAIN cats) \X (1..MaxFinal + 1) :
      k \in DOMAIN cats[i].papers /\ cats[i].papers[k] = paper }

\* the input papers whose reason is a reproduced-paper label
FilteredOut(papers) ==
  { k \in DOMAIN papers : IsReproducedOutcome(rawReason(papers[k])) }

\* C28: categorizeFinalExcludedPapers lists every input paper at most once,
\* in at most one category, and leaves a paper out only when its reason is a
\* reproduced-paper label; the sizes of the returned categories add up to the
\* number of input papers less the number of papers filtered out.
C28_FinalPartition ==
  pc = "finalCategorized" =>
    /\ \A k \in DOMAIN finalExcluded :
         /\ Cardinality(ListingsOf(finalCategories, finalExcluded[k])) <= 1
         /\ ListingsOf(finalCategories, finalExcluded[k]) = {}
              => k \in FilteredOut(finalExcluded)
    /\ \A i \in DOMAIN finalCategories :
         \A k \in DOMAIN finalCategories[i].papers :
           finalCategories[i].papers[k] \in Range(finalExcluded)
    /\ SumSizes(finalCategories)
         = Len(finalExcluded) - Cardinality(FilteredOut(finalExcluded))

\* one of two papers is filtered out as reproduced, the other is listed once
C28_Witness ==
  /\ pc = "finalCategorized"
  /\ Len(finalExcluded) = 2
  /\ FilteredOut(finalExcluded) = { 1 }
  /\ ListingsOf(finalCategories, finalExcluded[1]) = {}
  /\ Cardinality(ListingsOf(finalCategories, finalExcluded[2])) = 1
  /\ SumSizes(finalCategories) = 1


(***************************************************************************)
(* The excluded-papers list under search: the page is populated, then the  *)
(* reader types into 'excluded-search' and opens and closes drop-downs.    *)
(***************************************************************************)
SearchedFlagLists == { << >>, << NoCodebase >>, << NoEval >>, << NoFulltext >> }

RECURSIVE SearchedFlagListSeqs(_)
SearchedFlagListSeqs(n) ==
  IF n = 0 THEN { <<>> }
  ELSE { Append(q, l) : q \in SearchedFlagListSeqs(n - 1), l \in SearchedFlagLists }

SearchedRecordSets ==
  { [i \in 1..Len(q) |-> Article(ArticleIds[i], q[i])] :
      q \in UNION { SearchedFlagListSeqs(n) : n \in 0..MaxRecords } }

SearchValues == { "", "101", "RAYYAN", "zzz" }

InitSearch ==
  /\ pc = "loaded"
  /\ excluded \in SearchedRecordSets
  /\ overviewData = OverviewDocument(individual_criteria_counts(excluded),
                                     Len(excluded), 516, 0)
  /\ finalExcluded = <<>>
  /\ sankey = NoSankey
  /\ overviewTable = NoTable
  /\ categorizedExcluded = <<>>
  /\ categories = <<>>
  /\ extracted = <<>>
  /\ finalCategories = <<>>
  /\ console = <<>>
  /\ includeData = <<>>
  /\ loadedIncludeData = <<>>
  /\ clusterLinksData = NoClusterLinks
  /\ enrichedIncludeData = <<>>
  /\ loads = NoLoads
  /\ sections = <<>>
  /\ searchInput = ""
  /\ excList = <<>>
  /\ rawLabel = ""
  /\ normalized = <<>>
  /\ renormalized = <<>>

\* an 'input' event on the search box with the value the box then holds
SearchInput ==
  /\ pc \in { "lists", "searched" }
  /\ \E value \in SearchValues :
       /\ searchInput' = value
       /\ excList' = onSearchInput(excList, value)
  /\ pc' = "searched"
  /\ UNCHANGED <<overviewData, excluded, finalExcluded, sankey, overviewTable,
                 categorizedExcluded, categories, extracted, finalCategories,
                 console, labelVars, enrichVars, loadVars>>

\* a click on the header of one drop-down
ToggleDropdown ==
  /\ pc \in { "lists", "searched" }
  /\ \E i \in DOMAIN excList :
       excList' = [excList EXCEPT ![i] = toggleDropdown(excList[i])]
  /\ UNCHANGED <<pc, overviewData, excluded, finalExcluded, sankey, overviewTable,
                 categorizedExcluded, categories, extracted, finalCategories,
                 console, labelVars, enrichVars, loadVars, searchInput>>

NextSearch == PopulateOverview \/ PopulatePaperLists \/ SearchInput \/ ToggleDropdown

SpecSearch == InitSearch /\ [][NextSearch]_vars

\* style.display is not 'none'
Visible(element) == element.display # "none"

ContainsTerm(item) == Includes(ToLowerCase(item.text), ToLowerCase(searchInput))

\* after the search events so far, categories and items show by the term
ShownByTerm ==
  \A i \in DOMAIN excList :
    /\ Visible(excList[i])
         <=> \E k \in DOMAIN excList[i].items : ContainsTerm(excList[i].items[k])
    /\ \A k \in DOMAIN excList[i].items :
         Visible(excList[i].items[k]) <=> ContainsTerm(excList[i].items[k])

\* every category and every item shows, as when the list was built
AllShown ==
  \A i \in DOMAIN excList :
    /\ Visible(excList[i])
    /\ \A k \in DOMAIN excList[i].items : Visible(excList[i].items[k])

\* C29: after any sequence of search input events a category of the
\* excluded-papers list is visible exactly when one of its paper items
\* contains the current term, an item exactly when it contains the term; and
\* after a sequence ending with the empty term every category and every item
\* is visible again, as before the first search.
C29_SearchVisibility ==
  /\ pc = "lists" => AllShown
  /\ pc = "searched" => ShownByTerm
  /\ pc = "searched" /\ searchInput = "" => AllShown


(***************************************************************************)
(* The hard-coded totals of the overview (specification Spec).             *)
(***************************************************************************)
ReproducedFunnelNames ==
  { "Fully Reproduced", "Partially Reproduced (above threshold)" }

RECURSIVE SumFunnel(_)
SumFunnel(funnel) ==
  IF funnel = <<>> THEN 0 ELSE Head(funnel).count + SumFunnel(Tail(funnel))

ReproducedOf(funnel) ==
  SelectSeq(funnel, LAMBDA item : item.name \in ReproducedFunnelNames)

RemainingOf(funnel) ==
  SelectSeq(funnel, LAMBDA item : item.name \notin ReproducedFunnelNames)

\* the funnel nodes of the flow diagram, as [name, count]
FunnelOfSankey(sk) ==
  LET fromInScope == SelectSeq(sk.links, LAMBDA l : l.source = 3)
  IN  [i \in DOMAIN fromInScope |->
         LET node == CHOOSE n \in Range(sk.nodes) : n.id = fromInScope[i].target
         IN  [name |-> node.name, count |-> fromInScope[i].value]]

OverviewPopulated == pc \in { "overview", "lists", "again" }

\* C30: the hard-coded summary totals agree with the hard-coded funnel
\* breakdown of pie chart 2 and of the flow diagram: 'Total included' is the
\* sum of the two reproduced categories, 'Total excluded' less the 1851
\* out-of-scope papers is the sum of the remaining categories, and all funnel
\* counts add up to the in-scope total of 516.
C30_TotalsConsistent ==
  OverviewPopulated =>
    /\ FunnelOfSankey(sankey) = overviewTable.funnel
    /\ overviewTable.summary.included = SumFunnel(ReproducedOf(overviewTable.funnel))
    /\ overviewTable.summary.excluded - outOfScopeCount
         = SumFunnel(RemainingOf(overviewTable.funnel))
    /\ SumFunnel(overviewTable.funnel) = overviewTable.totalPapers

==========================================================================
